---- MODULE Spec2Model ----
(***************************************************************************)
(* A model of the TVA RPC gateway (rpc/src): the function registry         *)
(* (translator/abi.rs), the calldata and raw-transaction decoders          *)
(* (translator/tx.rs, translator/scval.rs), the envelope builder           *)
(* (translator/tx.rs) and the two orchestrated handlers eth_call and       *)
(* eth_sendRawTransaction (methods/eth.rs) talking to the ledger RPC and   *)
(* the account endpoint (stellar/client.rs).                               *)
(*                                                                         *)
(* Representation.  A byte is a number in 0..255 and a byte buffer a       *)
(* sequence of bytes.  A text (Rust String / &str) is a sequence of        *)
(* one-character strings wherever the code inspects characters (hex,       *)
(* prefixes, lengths, lower-casing); fixed message prefixes are kept as    *)
(* one element.  Result<T> is Ok(v) / Err(m), Option<T> is Some(v) / None. *)
(***************************************************************************)
EXTENDS Integers, Sequences, FiniteSets, TLC

VARIABLES
    contracts,      \* AbiRegistry.contracts: normalized address -> Vec<FunctionInfo>
    lock,           \* the RwLock around contracts: [writer, readers]
    reg,            \* per writer thread: its position in register_contract and its locals
    rd,             \* per reader thread: its position in a read operation and its locals
    config,         \* Config: the gateway's settings (stellar_secret_key)
    derived_account,\* the account id get_source_account_id returns for the configured key
    overflow_checks,\* the build profile: whether integer overflow panics (else it wraps)
    pc,             \* per handler invocation: where it is suspended
    kind,           \* per handler invocation: "call" or "send"
    rpc_params,     \* per handler invocation: the params it was called with
    local,          \* per handler invocation: its local variables
    outcome,        \* per handler invocation: the Result it returned
    log,            \* per handler invocation: the external requests it awaited
    lookups,        \* per handler invocation: the registry lookups it made
    regs_left,      \* registrations still allowed in the orchestration model
    last            \* the library call made last, alone: its arguments and result

vars == <<contracts, lock, reg, rd, config, derived_account,
          overflow_checks, pc, kind, rpc_params, local, outcome, log, lookups,
          regs_left, last>>

-----------------------------------------------------------------------------
(* Result and Option *)

Ok(v) == [ok |-> TRUE, val |-> v]
Err(m) == [ok |-> FALSE, err |-> m]
Some(v) == [some |-> TRUE, v |-> v]
None == [some |-> FALSE]

-----------------------------------------------------------------------------
(* Bytes, hex and text helpers *)

Byte == 0..255

Repeat(x, n) == [i \in 1..n |-> x]

\* s[a..b) with 0-based bounds, as a Rust slice
Slice(s, a, b) == IF b <= a THEN <<>> ELSE SubSeq(s, a + 1, b)

Min(a, b) == IF a <= b THEN a ELSE b

HexDigits == <<"0","1","2","3","4","5","6","7","8","9","a","b","c","d","e","f">>
UpperHexDigits == <<"0","1","2","3","4","5","6","7","8","9","A","B","C","D","E","F">>

UpperChars == <<"A","B","C","D","E","F","G","H","I","J","K","L","M",
                "N","O","P","Q","R","S","T","U","V","W","X","Y","Z">>
LowerChars == <<"a","b","c","d","e","f","g","h","i","j","k","l","m",
                "n","o","p","q","r","s","t","u","v","w","x","y","z">>

IndexOf(seq, x) == IF \E i \in 1..Len(seq) : seq[i] = x
                   THEN CHOOSE i \in 1..Len(seq) : seq[i] = x
                   ELSE 0

\* str::to_lowercase, character by character
to_lowercase(text) ==
    [i \in 1..Len(text) |->
        IF IndexOf(UpperChars, text[i]) > 0
        THEN LowerChars[IndexOf(UpperChars, text[i])]
        ELSE text[i]]

starts_with(text, prefix) ==
    /\ Len(text) >= Len(prefix)
    /\ SubSeq(text, 1, Len(prefix)) = prefix

\* s.strip_prefix("0x").unwrap_or(s)
strip_0x(text) ==
    IF starts_with(text, <<"0","x">>) THEN SubSeq(text, 3, Len(text)) ELSE text

\* hex::encode: two lower-case digits per byte
hex_encode(bytes) ==
    [i \in 1..(2 * Len(bytes)) |->
        IF i % 2 = 1 THEN HexDigits[(bytes[(i + 1) \div 2] \div 16) + 1]
        ELSE HexDigits[(bytes[i \div 2] % 16) + 1]]

HexValue(c) ==
    IF IndexOf(HexDigits, c) > 0 THEN IndexOf(HexDigits, c) - 1
    ELSE IF IndexOf(UpperHexDigits, c) > 0 THEN IndexOf(UpperHexDigits, c) - 1
    ELSE -1

\* hex::decode: odd length or a non-hex character is an error
hex_decode(text) ==
    IF Len(text) % 2 = 1 THEN Err(<<"Odd number of digits">>)
    ELSE IF \E i \in 1..Len(text) : HexValue(text[i]) < 0
    THEN Err(<<"Invalid character">>)
    ELSE Ok([i \in 1..(Len(text) \div 2) |->
                16 * HexValue(text[2 * i - 1]) + HexValue(text[2 * i])])

\* format!("{:0>64}", s): left-pad with '0' to 64 characters
pad_left_64(text) ==
    IF Len(text) >= 64 THEN text ELSE Repeat("0", 64 - Len(text)) \o text

\* hex::encode(Keccak256::digest(bytes)): the digest is kept symbolic, as a
\* text that names its preimage, so that distinct inputs give distinct hashes
Keccak256Hex(bytes) == <<"keccak256(">> \o hex_encode(bytes) \o <<")">>

\* big-endian value of a short byte string
RECURSIVE BigEndian(_)
BigEndian(bytes) ==
    IF bytes = <<>> THEN 0
    ELSE 256 * BigEndian(SubSeq(bytes, 1, Len(bytes) - 1)) + bytes[Len(bytes)]

-----------------------------------------------------------------------------
(* translator/abi.rs: the function registry *)

\* An ABI type tag is a sequence of tokens: <<"uint256">>, <<"bytes">>,
\* <<"bytes", "32">> for bytes32, <<"address", "[]">> for address[].
AbiParam(name, param_type) ==
    [name |-> name, param_type |-> param_type, components |-> None]

AbiEntry(entry_type, name, inputs, outputs) ==
    [entry_type |-> entry_type, name |-> name, inputs |-> inputs,
     outputs |-> outputs, state_mutability |-> None]

RECURSIVE JoinWith(_, _)
JoinWith(texts, sep) ==
    IF texts = <<>> THEN <<>>
    ELSE IF Len(texts) = 1 THEN texts[1]
    ELSE texts[1] \o sep \o JoinWith(Tail(texts), sep)

RECURSIVE canonical_type(_, _)
canonical_type(param_type, components) ==
    IF param_type # <<>> /\ param_type[1] = "tuple"
    THEN IF components.some
         THEN <<"(">>
              \o JoinWith([i \in 1..Len(components.v) |->
                             canonical_type(components.v[i].param_type,
                                            components.v[i].components)], <<",">>)
              \o <<")">>
              \o (IF param_type[Len(param_type)] = "[]" THEN <<"[]">> ELSE <<>>)
         ELSE param_type
    ELSE param_type

build_signature(name, inputs) ==
    <<name, "(">>
    \o JoinWith([i \in 1..Len(inputs) |->
                   canonical_type(inputs[i].param_type, inputs[i].components)], <<",">>)
    \o <<")">>

\* The first four bytes of Keccak-256 of the signature, for the signatures the
\* model registers (the first two are the values abi.rs's tests assert).
compute_selector(signature) ==
    CASE signature = <<"transfer", "(", "address", ",", "uint256", ")">>
           -> <<169, 5, 156, 187>>
      [] signature = <<"balanceOf", "(", "address", ")">>
           -> <<112, 160, 130, 49>>
      [] signature = <<"approve", "(", "address", ",", "uint256", ")">>
           -> <<9, 94, 167, 179>>
      [] signature = <<"totalSupply", "(", ")">>
           -> <<24, 22, 13, 221>>

normalize_address(address) == to_lowercase(strip_0x(address))

\* one turn of register_contract's loop over the ABI entries
push_function(functions, entry) ==
    IF entry.entry_type = "function" /\ entry.name.some
    THEN Append(functions,
                [name |-> entry.name.v,
                 selector |-> compute_selector(build_signature(entry.name.v, entry.inputs)),
                 inputs |-> entry.inputs,
                 outputs |-> entry.outputs,
                 state_mutability |->
                    IF entry.state_mutability.some THEN entry.state_mutability.v
                    ELSE "nonpayable"])
    ELSE functions

RECURSIVE collect_functions(_, _)
collect_functions(functions, abi) ==
    IF abi = <<>> THEN functions
    ELSE collect_functions(push_function(functions, Head(abi)), Tail(abi))

\* a faulty variant of HashMap::insert that extends the list already stored
map_extend(map, key, value) ==
    [k \in (DOMAIN map) \cup {key} |->
        IF k = key THEN (IF key \in DOMAIN map THEN map[key] ELSE <<>>) \o value
        ELSE map[k]]

\* HashMap::insert
map_insert(map, key, value) ==
    [k \in (DOMAIN map) \cup {key} |-> IF k = key THEN value ELSE map[k]]

\* functions.iter().find(pred).cloned()
\* hit[i] tells whether the predicate holds of functions[i]
find_first(functions, hit) ==
    IF \E i \in 1..Len(functions) : hit[i]
    THEN Some(functions[CHOOSE i \in 1..Len(functions) :
                          /\ hit[i]
                          /\ \A j \in 1..(i - 1) : ~hit[j]])
    ELSE None

\* the read operations, on the map a read guard gives access to; lookups give
\* up (None) on a poisoned lock, has_contract and get_selectors recover the map
lookup_function(l, map, address, selector) ==
    LET addr == normalize_address(address)
    IN  IF l.poisoned THEN None
        ELSE IF addr \notin DOMAIN map THEN None
        ELSE find_first(map[addr],
                        [i \in 1..Len(map[addr]) |-> map[addr][i].selector = selector])

lookup_function_by_name(l, map, address, name) ==
    LET addr == normalize_address(address)
    IN  IF l.poisoned THEN None
        ELSE IF addr \notin DOMAIN map THEN None
        ELSE find_first(map[addr],
                        [i \in 1..Len(map[addr]) |-> map[addr][i].name = name])

has_contract(l, map, address) == normalize_address(address) \in DOMAIN map

get_selectors(l, map, address) ==
    LET addr == normalize_address(address)
    IN  IF addr \in DOMAIN map
        THEN [i \in 1..Len(map[addr]) |-> map[addr][i].selector]
        ELSE <<>>

-----------------------------------------------------------------------------
(* translator/abi.rs: the ABI parameter decoder *)

SlotSize == 32

is_dynamic_type(param_type) ==
    \/ param_type = <<"bytes">>
    \/ param_type = <<"string">>
    \/ (param_type # <<>> /\ param_type[Len(param_type)] = "[]")
    \/ param_type = <<"tuple">>

\* A usize (64 bits on the gateway's targets) is held as its 8 big-endian
\* bytes.  Buffer lengths and positions inside a buffer are below 2^24 and are
\* plain integers.
usize_of(n) == Repeat(0, 5) \o <<n \div 65536, (n \div 256) % 256, n % 256>>

usize_is_small(w) == Slice(w, 0, 5) = Repeat(0, 5)

usize_value(w) == BigEndian(Slice(w, 5, 8))

\* w > n, for a length n
usize_exceeds(w, n) == ~usize_is_small(w) \/ usize_value(w) > n

\* a + b and a * k on big-endian bytes of a fixed width, from byte i down: the
\* wrapped result and whether it overflowed
RECURSIVE be_add_from(_, _, _, _, _)
be_add_from(a, b, i, carry, sum) ==
    IF i = 0 THEN [val |-> sum, overflow |-> carry > 0]
    ELSE be_add_from(a, b, i - 1, (a[i] + b[i] + carry) \div 256,
                        <<(a[i] + b[i] + carry) % 256>> \o sum)

usize_add(a, b) == be_add_from(a, b, 8, 0, <<>>)

RECURSIVE be_mul_from(_, _, _, _, _)
be_mul_from(a, k, i, carry, product) ==
    IF i = 0 THEN [val |-> product, overflow |-> carry > 0]
    ELSE be_mul_from(a, k, i - 1, (a[i] * k + carry) \div 256,
                        <<(a[i] * k + carry) % 256>> \o product)

usize_mul(a, k) == be_mul_from(a, k, 8, 0, <<>>)

\* a - b on big-endian bytes of the same width, for a >= b
RECURSIVE be_sub_from(_, _, _, _, _)
be_sub_from(a, b, i, borrow, difference) ==
    IF i = 0 THEN difference
    ELSE be_sub_from(a, b, i - 1, IF a[i] - b[i] - borrow < 0 THEN 1 ELSE 0,
                     <<(a[i] - b[i] - borrow + 256) % 256>> \o difference)

be_sub(a, b) == be_sub_from(a, b, Len(a), 0, <<>>)

\* a / d on big-endian bytes, for a small divisor d, from byte i up
RECURSIVE be_div_from(_, _, _, _, _)
be_div_from(a, d, i, remainder, quotient) ==
    IF i > Len(a) THEN quotient
    ELSE be_div_from(a, d, i + 1, (remainder * 256 + a[i]) % d,
                     Append(quotient, (remainder * 256 + a[i]) \div d))

be_div(a, d) == be_div_from(a, d, 1, 0, <<>>)

\* a >= b on big-endian bytes of the same width
be_ge(a, b) ==
    \/ a = b
    \/ \E i \in 1..Len(a) : a[i] > b[i] /\ \A j \in 1..(i - 1) : a[j] = b[j]

\* the thread panics: the call returns nothing
Panicked(m) == [ok |-> FALSE, panic |-> TRUE, err |-> m]

is_panic(result) == ~result.ok /\ "panic" \in DOMAIN result

\* &data[from..to] with usize bounds: panics unless from <= to <= data.len()
slice_range(data, from, to) ==
    IF usize_exceeds(to, Len(data))
    THEN Panicked(<<"range end index out of range for slice">>)
    ELSE IF usize_exceeds(from, usize_value(to))
    THEN Panicked(<<"slice index starts after its end">>)
    ELSE Ok(Slice(data, usize_value(from), usize_value(to)))

\* the low 8 bytes of a 32-byte word: u64::from_be_bytes(bytes) as usize
read_u256_as_usize(data) ==
    IF Len(data) < 32 THEN Err(<<"Not enough data for u256">>)
    ELSE Ok(Slice(data, 24, 32))

\* an arithmetic step: with overflow checks an overflow panics, without them
\* the wrapped value is used
overflowed(checks, step) == checks /\ step.overflow

\* decode_dynamic_param once offset + 32 was found inside the buffer
decode_dynamic_at(data, offset, start, param_type, checks) ==
    LET word == slice_range(data, offset, start)
        length == read_u256_as_usize(word.val).val
        span == IF param_type = <<"bytes">> \/ param_type = <<"string">>
                THEN [val |-> length, overflow |-> FALSE]
                ELSE usize_mul(length, 32)
        end == usize_add(start, span.val)
        from == IF param_type = <<"bytes">> \/ param_type = <<"string">>
                THEN start ELSE offset
    IN  IF param_type = <<"bytes">> \/ param_type = <<"string">>
           \/ (param_type # <<>> /\ param_type[Len(param_type)] = "[]")
        THEN IF ~word.ok THEN word
             ELSE IF overflowed(checks, span)
             THEN Panicked(<<"attempt to multiply with overflow">>)
             ELSE IF overflowed(checks, end)
             THEN Panicked(<<"attempt to add with overflow">>)
             ELSE IF usize_exceeds(end.val, Len(data))
             THEN Err(IF from = start THEN <<"Dynamic param data out of bounds">>
                      ELSE <<"Dynamic array data out of bounds">>)
             ELSE slice_range(data, from, end.val)
        ELSE slice_range(data, offset,
                         IF usize_exceeds(start, Len(data)) THEN usize_of(Len(data))
                         ELSE start)

decode_dynamic_checked(data, offset, param_type, checks) ==
    LET start == usize_add(offset, usize_of(32))
    IN  IF overflowed(checks, start) THEN Panicked(<<"attempt to add with overflow">>)
        ELSE IF usize_exceeds(start.val, Len(data))
        THEN Err(<<"Dynamic param offset out of bounds">>)
        ELSE decode_dynamic_at(data, offset, start.val, param_type, checks)

decode_dynamic_param(data, offset, param_type) ==
    decode_dynamic_checked(data, offset, param_type, overflow_checks)

RECURSIVE decode_abi_loop(_, _, _, _)
decode_abi_loop(data, param_types, i, decoded) ==
    IF i > Len(param_types) THEN Ok(decoded)
    ELSE LET offset == SlotSize * (i - 1)
             t == param_types[i].param_type
         IN  IF is_dynamic_type(t)
             THEN IF offset + 32 > Len(data)
                  THEN Err(<<"ABI data too short for dynamic offset">>)
                  ELSE LET data_offset ==
                               read_u256_as_usize(Slice(data, offset, offset + 32)).val
                           dyn == decode_dynamic_param(data, data_offset, t)
                       IN  IF dyn.ok
                           THEN decode_abi_loop(data, param_types, i + 1,
                                                Append(decoded, dyn.val))
                           ELSE dyn
             ELSE IF offset + 32 > Len(data)
                  THEN Err(<<"ABI data too short for static param">>)
                  ELSE decode_abi_loop(data, param_types, i + 1,
                                       Append(decoded, Slice(data, offset, offset + 32)))

decode_abi_params(data, param_types) ==
    IF data = <<>> /\ param_types = <<>> THEN Ok(<<>>)
    ELSE decode_abi_loop(data, param_types, 1, <<>>)

\* a 32-byte word holding (n as u64).to_be_bytes() in its last 8 bytes
u64_word(n) == Repeat(0, 24) \o usize_of(n)

\* the static branch of encode_abi_values
encode_static(values, i) ==
    IF i <= Len(values)
    THEN IF Len(values[i]) >= 32 THEN Slice(values[i], 0, 32)
         ELSE Repeat(0, 32 - Len(values[i])) \o values[i]
    ELSE Repeat(0, 32)

\* a faulty variant of the dynamic branch that leaves the padding out
encode_dynamic_unpadded(value) == u64_word(Len(value)) \o value

\* the dynamic branch: what is appended to dynamic_data
encode_dynamic(value) ==
    u64_word(Len(value)) \o value \o Repeat(0, (32 - (Len(value) % 32)) % 32)

RECURSIVE encode_abi_loop(_, _, _, _, _)
encode_abi_loop(values, param_types, i, result, dynamic_data) ==
    IF i > Len(param_types) THEN Ok(result \o dynamic_data)
    ELSE IF is_dynamic_type(param_types[i].param_type)
    THEN IF i > Len(values) THEN Panicked(<<"index out of bounds">>)
         ELSE encode_abi_loop(values, param_types, i + 1,
                              result \o u64_word(Len(param_types) * 32 + Len(dynamic_data)),
                              dynamic_data \o encode_dynamic(values[i]))
    ELSE encode_abi_loop(values, param_types, i + 1,
                         result \o encode_static(values, i), dynamic_data)

\* Ok(bytes) when the call returns, Panicked when values[i] is missing for a
\* dynamic parameter
encode_abi_values(values, param_types) ==
    encode_abi_loop(values, param_types, 1, <<>>, <<>>)

-----------------------------------------------------------------------------
(* translator/scval.rs: ABI chunk -> ScVal.  Integer payloads are kept as    *)
(* their big-endian bytes (a u64 limb is 8 bytes), which is bit-exact.       *)

\* String::from_utf8 succeeds exactly on well-formed UTF-8
RECURSIVE is_utf8(_)
is_utf8(b) ==
    LET cont(i) == Len(b) >= i /\ b[i] >= 128 /\ b[i] <= 191
        rest(k) == is_utf8(Slice(b, k, Len(b)))
    IN  IF b = <<>> THEN TRUE
        ELSE IF b[1] < 128 THEN rest(1)
        ELSE IF b[1] >= 194 /\ b[1] <= 223 THEN cont(2) /\ rest(2)
        ELSE IF b[1] = 224 THEN cont(2) /\ b[2] >= 160 /\ cont(3) /\ rest(3)
        ELSE IF b[1] = 237 THEN cont(2) /\ b[2] <= 159 /\ cont(3) /\ rest(3)
        ELSE IF b[1] >= 225 /\ b[1] <= 239 THEN cont(2) /\ cont(3) /\ rest(3)
        ELSE IF b[1] = 240 THEN cont(2) /\ b[2] >= 144 /\ cont(3) /\ cont(4) /\ rest(4)
        ELSE IF b[1] = 244 THEN cont(2) /\ b[2] <= 143 /\ cont(3) /\ cont(4) /\ rest(4)
        ELSE IF b[1] >= 241 /\ b[1] <= 243 THEN cont(2) /\ cont(3) /\ cont(4) /\ rest(4)
        ELSE FALSE

\* the UTF-8 bytes of hex::encode(bytes)
hex_encode_ascii(bytes) ==
    LET digit(v) == IF v < 10 THEN 48 + v ELSE 87 + v
    IN  [i \in 1..(2 * Len(bytes)) |->
            IF i % 2 = 1 THEN digit(bytes[(i + 1) \div 2] \div 16)
            ELSE digit(bytes[i \div 2] % 16)]

\* String::from_utf8(v).unwrap_or_else(|_| hex::encode(v)), as the string's bytes
string_or_hex(bytes) == IF is_utf8(bytes) THEN bytes ELSE hex_encode_ascii(bytes)

\* usize::from_str on the width token of a fixed-size bytes type, for the
\* numerals "0" to "64"; every other token is taken as one that does not parse
parse_width(token) ==
    IF \E n \in 0..64 : ToString(n) = token
    THEN Some(CHOOSE n \in 0..64 : ToString(n) = token)
    ELSE None

ScVal(tag, v) == [tag |-> tag, v |-> v]

Limbs(data) == [i \in 1..4 |-> Slice(data, (i - 1) * 8, i * 8)]

abi_param_to_scval(data, param) ==
    LET t == param.param_type
        short == Len(data) < 32
    IN  CASE t = <<"bool">> ->
               IF short THEN Err(<<"Bool data too short">>)
               ELSE Ok(ScVal("Bool", data[32] # 0))
          [] t = <<"address">> ->
               IF short THEN Err(<<"Address data too short">>)
               ELSE Ok(ScVal("Address",
                             [kind |-> "Contract",
                              key |-> Repeat(0, 12) \o Slice(data, 12, 32)]))
          [] t \in {<<"uint8">>, <<"uint16">>, <<"uint32">>} ->
               IF short THEN Err(<<"Uint data too short">>)
               ELSE Ok(ScVal("U32", Slice(data, 28, 32)))
          [] t \in {<<"int8">>, <<"int16">>, <<"int32">>} ->
               IF short THEN Err(<<"Int data too short">>)
               ELSE Ok(ScVal("I32", Slice(data, 28, 32)))
          [] t = <<"uint64">> ->
               IF short THEN Err(<<"Uint64 data too short">>)
               ELSE Ok(ScVal("U64", Slice(data, 24, 32)))
          [] t = <<"int64">> ->
               IF short THEN Err(<<"Int64 data too short">>)
               ELSE Ok(ScVal("I64", Slice(data, 24, 32)))
          [] t = <<"uint128">> ->
               IF short THEN Err(<<"Uint128 data too short">>)
               ELSE Ok(ScVal("U128", Slice(data, 16, 32)))
          [] t = <<"int128">> ->
               IF short THEN Err(<<"Int128 data too short">>)
               ELSE Ok(ScVal("I128", Slice(data, 16, 32)))
          [] t = <<"uint256">> ->
               IF short THEN Err(<<"Uint256 data too short">>)
               ELSE Ok(ScVal("U256", Limbs(data)))
          [] t = <<"int256">> ->
               IF short THEN Err(<<"Int256 data too short">>)
               ELSE Ok(ScVal("I256", Limbs(data)))
          [] t = <<"bytes">> -> Ok(ScVal("Bytes", data))
          [] t = <<"string">> -> Ok(ScVal("Str", string_or_hex(data)))
          [] Len(t) > 1 /\ t[1] = "bytes" ->
               LET parsed == IF Len(t) = 2 THEN parse_width(t[2]) ELSE None
                   n == IF parsed.some THEN parsed.v ELSE 32
               IN  Ok(ScVal("Bytes", Slice(data, 0, Min(n, Len(data)))))
          [] OTHER ->
               IF ~short THEN Ok(ScVal("U256", Limbs(data)))
               ELSE Ok(ScVal("Bytes", data))

-----------------------------------------------------------------------------
(* The rlp crate as translator/tx.rs uses it: Rlp::new, is_list, item_count *)
(* and val_at::<Vec<u8>>.  An Rlp view is the byte string it was made from. *)

rlp_is_list(bytes) == bytes # <<>> /\ bytes[1] >= 192

\* [ok, header, len]: the header length and payload length of the item that
\* starts the buffer; not ok when the buffer ends before the item does
rlp_payload_info(bytes) ==
    IF bytes = <<>> THEN [ok |-> FALSE, header |-> 0, len |-> 0]
    ELSE LET b == bytes[1]
             long == (b >= 184 /\ b <= 191) \/ b >= 248
             ll == IF b >= 248 THEN b - 247 ELSE IF long THEN b - 183 ELSE 0
             header == IF b < 128 THEN 0 ELSE 1 + ll
             len == IF b < 128 THEN 1
                    ELSE IF b <= 183 THEN b - 128
                    ELSE IF b <= 191 THEN
                        (IF Len(bytes) >= 1 + ll /\ ll <= 3
                         THEN BigEndian(Slice(bytes, 1, 1 + ll)) ELSE Len(bytes) + 1)
                    ELSE IF b <= 247 THEN b - 192
                    ELSE (IF Len(bytes) >= 1 + ll /\ ll <= 3
                          THEN BigEndian(Slice(bytes, 1, 1 + ll)) ELSE Len(bytes) + 1)
         IN  [ok |-> header + len <= Len(bytes), header |-> header, len |-> len]

\* the items of a list payload, each with its header, up to the first
\* item that does not fit
RECURSIVE rlp_items(_)
rlp_items(payload) ==
    LET info == rlp_payload_info(payload)
    IN  IF payload = <<>> \/ ~info.ok THEN <<>>
        ELSE <<Slice(payload, 0, info.header + info.len)>>
             \o rlp_items(Slice(payload, info.header + info.len, Len(payload)))

rlp_list_items(bytes) ==
    LET info == rlp_payload_info(bytes)
    IN  IF rlp_is_list(bytes) /\ info.ok
        THEN rlp_items(Slice(bytes, info.header, info.header + info.len))
        ELSE <<>>

rlp_item_count(bytes) == Len(rlp_list_items(bytes))

\* Rlp::at: the view of the item at index; an empty view when there is none
rlp_at(items, index) == IF index < Len(items) THEN items[index + 1] ELSE <<>>

\* decoding an item as Vec<u8>, with unwrap_or_default: a list, a missing
\* item or a non-canonical encoding gives the empty buffer
rlp_decode_value(item, info) ==
    IF item = <<>> \/ rlp_is_list(item) \/ ~info.ok THEN <<>>
    ELSE IF item[1] = 129 /\ item[2] < 128 THEN <<>>
    ELSE IF item[1] >= 184 /\ info.len < 56 THEN <<>>
    ELSE Slice(item, info.header, info.header + info.len)

rlp_as_bytes(item) == rlp_decode_value(item, rlp_payload_info(item))

\* rlp.val_at::<Vec<u8>>(index).unwrap_or_default()
rlp_bytes_at(bytes, index) == rlp_as_bytes(rlp_at(rlp_list_items(bytes), index))

\* the encoder, used only to write down the raw transactions a client sends
rlp_encode_bytes(data) ==
    IF Len(data) = 1 /\ data[1] < 128 THEN data
    ELSE IF Len(data) <= 55 THEN <<128 + Len(data)>> \o data
    ELSE <<184, Len(data)>> \o data

RECURSIVE Concat(_)
Concat(seqs) == IF seqs = <<>> THEN <<>> ELSE Head(seqs) \o Concat(Tail(seqs))

rlp_encode_list(items) ==
    LET payload == Concat(items)
    IN  IF Len(payload) <= 55 THEN <<192 + Len(payload)>> \o payload
        ELSE <<248, Len(payload)>> \o payload

-----------------------------------------------------------------------------
(* translator/tx.rs: the raw-transaction decoder (recipient, calldata, hash) *)

AddressLen == 20

\* a faulty variant that takes any non-empty item for a recipient
recipient_of_any(to_bytes) == IF to_bytes # <<>> THEN Some(to_bytes) ELSE None

\* the recipient item: Some(address) only when it is exactly 20 bytes long
recipient(to_bytes) == IF Len(to_bytes) = AddressLen THEN Some(to_bytes) ELSE None

\* rlp.val_at::<u64>(index).unwrap_or(0), as 8 big-endian bytes: a payload of
\* more than 8 bytes or with a leading zero byte is an error, like a list or a
\* missing item, and gives 0
rlp_u64(payload) ==
    IF Len(payload) > 8 \/ (payload # <<>> /\ payload[1] = 0) THEN Repeat(0, 8)
    ELSE Repeat(0, 8 - Len(payload)) \o payload

rlp_u64_at(bytes, index) == rlp_u64(rlp_bytes_at(bytes, index))

\* bytes_to_u128, as 16 big-endian bytes: the shifts drop all but the last 16
bytes_to_u128(bytes) ==
    IF Len(bytes) >= 16 THEN Slice(bytes, Len(bytes) - 16, Len(bytes))
    ELSE Repeat(0, 16 - Len(bytes)) \o bytes

\* a * k on 16 big-endian bytes (u128)
u128_mul(a, k) == be_mul_from(a, k, 16, 0, <<>>)

\* a faulty variant that scales stroops by 10^9
stroops_to_gwei(stroops) ==
    LET scaled == u128_mul(u128_mul(Repeat(0, 8) \o stroops, 1000).val, 1000000)
    IN  [val |-> scaled.val, overflow |-> scaled.overflow]

\* (stroops as u128) * 100_000_000_000, the factor taken as 10^5 * 10^6: the
\* product in 128 bits and whether the multiplication overflowed
stroops_to_wei(stroops) ==
    LET first == u128_mul(Repeat(0, 8) \o stroops, 100000)
        scaled == u128_mul(first.val, 1000000)
    IN  [val |-> scaled.val, overflow |-> first.overflow \/ scaled.overflow]

\* (wei / 100_000_000_000) as u64: the quotient's low 64 bits
wei_to_stroops(wei) == Slice(be_div(be_div(wei, 100000), 1000000), 8, 16)

\* a variant that takes every non-zero v for an EIP-155 v
eip155_chain_id_of_any(v) ==
    IF v # usize_of(0) THEN Some(be_div(be_sub(v, usize_of(35)), 2)) ELSE None

\* EIP-155: if v >= 35 { Some((v - 35) / 2) } else { None }
eip155_chain_id(v) ==
    IF be_ge(v, usize_of(35)) THEN Some(be_div(be_sub(v, usize_of(35)), 2)) ELSE None

decode_legacy_transaction(rlp, raw_tx) ==
    Ok([nonce |-> rlp_u64_at(rlp, 0),
        gas_price |-> rlp_u64_at(rlp, 1),
        gas_limit |-> rlp_u64_at(rlp, 2),
        to |-> recipient(rlp_bytes_at(rlp, 3)),
        value |-> bytes_to_u128(rlp_bytes_at(rlp, 4)),
        data |-> rlp_bytes_at(rlp, 5),
        chain_id |-> eip155_chain_id(rlp_u64_at(rlp, 6)),
        v |-> rlp_u64_at(rlp, 6),
        r |-> rlp_bytes_at(rlp, 7),
        s |-> rlp_bytes_at(rlp, 8),
        tx_hash |-> Keccak256Hex(raw_tx)])

decode_eip1559_transaction(rlp, raw_tx) ==
    Ok([nonce |-> rlp_u64_at(rlp, 1),
        gas_price |-> rlp_u64_at(rlp, 3),
        gas_limit |-> rlp_u64_at(rlp, 4),
        to |-> recipient(rlp_bytes_at(rlp, 5)),
        value |-> bytes_to_u128(rlp_bytes_at(rlp, 6)),
        data |-> rlp_bytes_at(rlp, 7),
        chain_id |-> Some(rlp_u64_at(rlp, 0)),
        v |-> rlp_u64_at(rlp, 9),
        r |-> rlp_bytes_at(rlp, 10),
        s |-> rlp_bytes_at(rlp, 11),
        tx_hash |-> Keccak256Hex(raw_tx)])

decode_unsigned_transaction(rlp, raw_tx) ==
    Ok([nonce |-> rlp_u64_at(rlp, 0),
        gas_price |-> rlp_u64_at(rlp, 1),
        gas_limit |-> rlp_u64_at(rlp, 2),
        to |-> recipient(rlp_bytes_at(rlp, 3)),
        value |-> bytes_to_u128(rlp_bytes_at(rlp, 4)),
        data |-> rlp_bytes_at(rlp, 5),
        chain_id |-> None,
        v |-> Repeat(0, 8),
        r |-> <<>>,
        s |-> <<>>,
        tx_hash |-> Keccak256Hex(raw_tx)])

\* the dispatch on the item count
decode_by_item_count(tx_data, raw_tx, is_typed, item_count) ==
    IF is_typed /\ item_count >= 9 THEN decode_eip1559_transaction(tx_data, raw_tx)
    ELSE IF item_count = 9 THEN decode_legacy_transaction(tx_data, raw_tx)
    ELSE IF item_count = 6 THEN decode_unsigned_transaction(tx_data, raw_tx)
    ELSE Err(<<"Unexpected RLP item count">>)

decode_raw_transaction(raw_tx) ==
    LET is_typed == raw_tx # <<>> /\ raw_tx[1] < 127
        tx_data == IF is_typed THEN Tail(raw_tx) ELSE raw_tx
    IN  IF ~rlp_is_list(tx_data) THEN Err(<<"Transaction RLP is not a list">>)
        ELSE decode_by_item_count(tx_data, raw_tx, is_typed, rlp_item_count(tx_data))

\* decoded_params.iter().zip(inputs).map(abi_param_to_scval).collect::<Result<_>>():
\* the converted values, or the first conversion error
RECURSIVE collect_scvals(_, _, _, _)
RECURSIVE collect_scval(_, _, _, _, _)
collect_scvals(chunks, inputs, i, scvals) ==
    IF i > Len(chunks) \/ i > Len(inputs) THEN Ok(scvals)
    ELSE collect_scval(chunks, inputs, i, scvals, abi_param_to_scval(chunks[i], inputs[i]))

collect_scval(chunks, inputs, i, scvals, scval) ==
    IF ~scval.ok THEN scval
    ELSE collect_scvals(chunks, inputs, i + 1, Append(scvals, scval.val))

DecodedCalldata(selector, function_name, params_data, scval_params) ==
    IF ~scval_params.ok THEN scval_params
    ELSE Ok([selector |-> selector,
             function_name |-> function_name,
             params_data |-> params_data,
             scval_params |-> scval_params.val])

\* the branch of decode_calldata for a registered function
decode_registered(selector, params_data, info, decoded_params) ==
    IF ~decoded_params.ok THEN decoded_params
    ELSE DecodedCalldata(selector, Some(info.name), params_data,
                         collect_scvals(decoded_params.val, info.inputs, 1, <<>>))

\* a faulty variant that rejects a selector the registry does not resolve
decode_resolved_strict(selector, params_data, function_info) ==
    IF function_info.some
    THEN decode_registered(selector, params_data, function_info.v,
                           decode_abi_params(params_data, function_info.v.inputs))
    ELSE Err(<<"Unknown function selector">>)

\* the two branches of decode_calldata, on the outcome of the registry lookup
decode_resolved(selector, params_data, function_info) ==
    IF function_info.some
    THEN decode_registered(selector, params_data, function_info.v,
                           decode_abi_params(params_data, function_info.v.inputs))
    ELSE DecodedCalldata(selector, None, params_data,
                         Ok(IF params_data # <<>>
                            THEN <<ScVal("Bytes", params_data)>>
                            ELSE <<>>))

\* decode_calldata, against the registry map a read guard gives access to
decode_calldata(calldata, contract_address, l, map) ==
    IF Len(calldata) < 4
    THEN Err(<<"Calldata too short for function selector">>)
    ELSE decode_resolved(Slice(calldata, 0, 4), Slice(calldata, 4, Len(calldata)),
                         lookup_function(l, map, contract_address, Slice(calldata, 0, 4)))

-----------------------------------------------------------------------------
(* translator/tx.rs: strkey decoding and the envelope builder *)

Base32Alphabet == <<"A","B","C","D","E","F","G","H","I","J","K","L","M","N","O","P",
                    "Q","R","S","T","U","V","W","X","Y","Z","2","3","4","5","6","7">>

\* base32_decode.  The loop shifts each character's 5 bits into the buffer
\* and pushes a byte whenever 8 bits are there, so byte k of the result is bits
\* 8k .. 8k+7 of the concatenated 5-bit symbols; '=' stops the loop, and a
\* foreign character before it is an error.
base32_decode(input) ==
    LET n == IF \E i \in 1..Len(input) : input[i] = "="
             THEN (CHOOSE i \in 1..Len(input) :
                      input[i] = "=" /\ \A j \in 1..(i - 1) : input[j] # "=") - 1
             ELSE Len(input)
        symbol(i) == IF i <= n THEN IndexOf(Base32Alphabet, input[i]) - 1 ELSE 0
        window(i) == symbol(i) * 1024 + symbol(i + 1) * 32 + symbol(i + 2)
        shift(o) == IF o = 0 THEN 128 ELSE IF o = 1 THEN 64 ELSE IF o = 2 THEN 32
                    ELSE IF o = 3 THEN 16 ELSE 8
    IN  IF \E i \in 1..n : IndexOf(Base32Alphabet, input[i]) = 0
        THEN Err(<<"Invalid base32 character">>)
        ELSE Ok([k \in 1..((5 * n) \div 8) |->
                    (window(((8 * (k - 1)) \div 5) + 1) \div shift((8 * (k - 1)) % 5)) % 256])

StrkeyLen == 56

\* 1 version byte + 32 payload bytes + 2 checksum bytes; the checksum is not verified
decode_strkey(address) ==
    LET decoded == base32_decode(address)
    IN  IF ~decoded.ok THEN decoded
        ELSE IF Len(decoded.val) < 35 THEN Err(<<"Strkey too short">>)
        ELSE Ok(Slice(decoded.val, 1, 33))

decode_stellar_address(address) ==
    IF address # <<>> /\ address[1] = "G" /\ Len(address) = StrkeyLen
    THEN decode_strkey(address)
    ELSE IF Len(address) = 64
    THEN hex_decode(address)
    ELSE Err(<<"Invalid Stellar address format: ">> \o address)

decode_contract_id(contract_id) ==
    IF starts_with(contract_id, <<"0","x">>) \/ Len(contract_id) = 64
    THEN LET bytes == hex_decode(strip_0x(contract_id))
         IN  IF ~bytes.ok THEN Err(<<"Invalid hex contract ID">>)
             ELSE IF Len(bytes.val) # 32 THEN Err(<<"Contract ID hex must be 32 bytes">>)
             ELSE bytes
    ELSE IF contract_id # <<>> /\ contract_id[1] = "C" /\ Len(contract_id) = StrkeyLen
    THEN decode_strkey(contract_id)
    ELSE Err(<<"Unable to parse contract ID: ">> \o contract_id)

\* InvokeContractArgs: contract key, function symbol, arguments
build_invoke_contract_args(contract_id, function_name, args) ==
    LET contract_bytes == decode_contract_id(contract_id)
    IN  IF ~contract_bytes.ok THEN contract_bytes
        ELSE Ok([contract |-> contract_bytes.val,
                 function_name |-> function_name,
                 args |-> args])

\* The transaction envelope, one record field per XDR field the builder
\* writes, in the order it writes them; the signature list is always written
\* empty.  The network passphrase argument is unused by the builder.
build_transaction_envelope(source_account, sequence_number, invoke_args, fee) ==
    LET source_key == decode_stellar_address(source_account)
    IN  IF ~source_key.ok THEN source_key
        ELSE Ok([envelope_type |-> 2,
                 source_key_type |-> 0,
                 source_key |-> source_key.val,
                 fee |-> fee,
                 sequence_number |-> sequence_number,
                 preconditions |-> 0,
                 memo |-> 0,
                 operations |-> 1,
                 operation_type |-> 24,
                 host_function_type |-> 0,
                 invoke_args |-> invoke_args,
                 auth |-> <<>>,
                 ext |-> 0,
                 signatures |-> <<>>])

\* build_soroban_invoke_tx; the result stands for the base64 text of the
\* envelope and is kept as the structure that text decodes to
build_soroban_invoke_tx(source_account, sequence_number, contract_id, function_name, args, fee) ==
    LET invoke_args_xdr == build_invoke_contract_args(contract_id, function_name, args)
    IN  IF ~invoke_args_xdr.ok THEN invoke_args_xdr
        ELSE build_transaction_envelope(source_account, sequence_number,
                                        invoke_args_xdr.val, fee)

-----------------------------------------------------------------------------
(* translator/scval.rs: from a simulation result (base64 XDR) back to ABI bytes *)

Base64Alphabet ==
    <<"A","B","C","D","E","F","G","H","I","J","K","L","M","N","O","P",
      "Q","R","S","T","U","V","W","X","Y","Z","a","b","c","d","e","f",
      "g","h","i","j","k","l","m","n","o","p","q","r","s","t","u","v",
      "w","x","y","z","0","1","2","3","4","5","6","7","8","9","+","/">>

\* base64 STANDARD engine: canonical padding required, no stray characters,
\* no non-zero trailing bits
base64_decode(text) ==
    LET n == Len(text)
        pad == IF n >= 2 /\ text[n] = "=" /\ text[n - 1] = "=" THEN 2
               ELSE IF n >= 1 /\ text[n] = "=" THEN 1 ELSE 0
        sextets == [i \in 1..(n - pad) |-> IndexOf(Base64Alphabet, text[i]) - 1]
        count == ((n - pad) * 6) \div 8
        byte_at(k) ==
            LET i == ((8 * k) \div 6) + 1
                o == (8 * k) % 6
            IN  IF o = 0 THEN sextets[i] * 4 + (sextets[i + 1] \div 16)
                ELSE IF o = 2 THEN (sextets[i] % 16) * 16 + (sextets[i + 1] \div 4)
                ELSE (sextets[i] % 4) * 64 + sextets[i + 1]
    IN  IF n % 4 # 0 THEN Err(<<"Invalid padding">>)
        ELSE IF \E i \in 1..(n - pad) : sextets[i] < 0 THEN Err(<<"Invalid byte">>)
        ELSE IF pad = 1 /\ sextets[n - pad] % 4 # 0 THEN Err(<<"Invalid last symbol">>)
        ELSE IF pad = 2 /\ sextets[n - pad] % 16 # 0 THEN Err(<<"Invalid last symbol">>)
        ELSE Ok([k \in 1..count |-> byte_at(k - 1)])

\* a 4-byte big-endian length used as usize: its value when below 2^24,
\* otherwise 2^24, which is beyond the end of every buffer considered
xdr_length(lb) == IF lb[1] = 0 THEN BigEndian(Slice(lb, 1, 4)) ELSE 16777216

parse_scval_from_xdr(data) ==
    LET disc == Slice(data, 0, 4)
        is(k) == disc = <<0, 0, 0, k>>
        end == 8 + xdr_length(Slice(data, 4, 8))
    IN  IF Len(data) < 4 THEN Err(<<"XDR too short for ScVal discriminant">>)
        ELSE CASE is(0) -> IF Len(data) < 8 THEN Err(<<"XDR too short for Bool value">>)
                           ELSE Ok(ScVal("Bool", Slice(data, 4, 8) # <<0, 0, 0, 0>>))
               [] is(1) -> Ok(ScVal("Void", <<>>))
               [] is(3) -> IF Len(data) < 8 THEN Err(<<"XDR too short for U32">>)
                           ELSE Ok(ScVal("U32", Slice(data, 4, 8)))
               [] is(4) -> IF Len(data) < 8 THEN Err(<<"XDR too short for I32">>)
                           ELSE Ok(ScVal("I32", Slice(data, 4, 8)))
               [] is(5) -> IF Len(data) < 12 THEN Err(<<"XDR too short for U64">>)
                           ELSE Ok(ScVal("U64", Slice(data, 4, 12)))
               [] is(6) -> IF Len(data) < 12 THEN Err(<<"XDR too short for I64">>)
                           ELSE Ok(ScVal("I64", Slice(data, 4, 12)))
               [] is(9) -> IF Len(data) < 20 THEN Err(<<"XDR too short for U128">>)
                           ELSE Ok(ScVal("U128", Slice(data, 4, 20)))
               [] is(10) -> IF Len(data) < 20 THEN Err(<<"XDR too short for I128">>)
                            ELSE Ok(ScVal("I128", Slice(data, 4, 20)))
               [] is(11) -> IF Len(data) < 36 THEN Err(<<"XDR too short for U256">>)
                            ELSE Ok(ScVal("U256", Limbs(Slice(data, 4, 36))))
               [] is(13) -> IF Len(data) < 8 THEN Err(<<"XDR too short for Bytes length">>)
                            ELSE IF Len(data) < end THEN Err(<<"XDR too short for Bytes data">>)
                            ELSE Ok(ScVal("Bytes", Slice(data, 8, end)))
               [] is(14) -> IF Len(data) < 8 THEN Err(<<"XDR too short for String length">>)
                            ELSE IF Len(data) < end THEN Err(<<"XDR too short for String data">>)
                            ELSE Ok(ScVal("Str", string_or_hex(Slice(data, 8, end))))
               [] is(15) -> IF Len(data) < 8 THEN Err(<<"XDR too short for Symbol length">>)
                            ELSE IF Len(data) < end THEN Err(<<"XDR too short for Symbol data">>)
                            ELSE Ok(ScVal("Symbol", string_or_hex(Slice(data, 8, end))))
               [] OTHER -> Ok(ScVal("Bytes", data))

\* a signed big-endian integer is negative when its top bit is set
is_negative(be) == be # <<>> /\ be[1] >= 128

\* a faulty variant that zero-fills above every integer, negative or not
scval_to_abi_bytes_zero_filled(scval, param) ==
    LET v == scval.v
        zero(be) == Repeat(0, 32 - Len(be)) \o be
    IN  CASE scval.tag = "Bool" -> Ok(Repeat(0, 31) \o <<IF v THEN 1 ELSE 0>>)
          [] scval.tag \in {"U32", "U64", "U128", "I32", "I64", "I128"} -> Ok(zero(v))
          [] scval.tag \in {"U256", "I256"} -> Ok(v[1] \o v[2] \o v[3] \o v[4])
          [] scval.tag = "Address" -> Ok(Repeat(0, 12) \o Slice(v.key, 12, 32))
          [] scval.tag = "Bytes" ->
               IF param.param_type = <<"bytes">> THEN Ok(v)
               ELSE Ok(Slice(v, 0, Min(Len(v), 32)) \o Repeat(0, 32 - Min(Len(v), 32)))
          [] scval.tag = "Str" -> Ok(v)
          [] OTHER -> Ok(Repeat(0, 32))

scval_to_abi_bytes(scval, param) ==
    LET v == scval.v
        fill(be) == Repeat(IF is_negative(be) THEN 255 ELSE 0, 32 - Len(be)) \o be
        zero(be) == Repeat(0, 32 - Len(be)) \o be
    IN  CASE scval.tag = "Bool" -> Ok(Repeat(0, 31) \o <<IF v THEN 1 ELSE 0>>)
          [] scval.tag \in {"U32", "U64", "U128"} -> Ok(zero(v))
          [] scval.tag \in {"I32", "I64", "I128"} -> Ok(fill(v))
          [] scval.tag \in {"U256", "I256"} -> Ok(v[1] \o v[2] \o v[3] \o v[4])
          [] scval.tag = "Address" -> Ok(Repeat(0, 12) \o Slice(v.key, 12, 32))
          [] scval.tag = "Bytes" ->
               IF param.param_type = <<"bytes">> THEN Ok(v)
               ELSE LET len == Min(Len(v), 32)
                    IN  Ok(Slice(v, 0, len) \o Repeat(0, 32 - len))
          [] scval.tag = "Str" -> Ok(v)
          [] OTHER -> Ok(Repeat(0, 32))

\* the encoding of a parsed result under the declared outputs
encode_outputs(scval, output_types) ==
    IF ~scval.ok THEN scval
    ELSE IF Len(output_types) = 1
    THEN scval_to_abi_bytes(scval.val, output_types[1])
    ELSE IF scval.val.tag = "Vec"
    THEN Ok(Concat([i \in 1..Len(scval.val.v) |->
                       scval_to_abi_bytes(scval.val.v[i],
                                          IF i <= Len(output_types) THEN output_types[i]
                                          ELSE AbiParam("", <<"uint256">>)).val]))
    ELSE IF output_types = <<>> THEN Ok(<<>>)
    ELSE scval_to_abi_bytes(scval.val, output_types[1])

decode_xdr_bytes_to_abi(xdr_bytes, output_types) ==
    IF ~xdr_bytes.ok THEN Err(<<"Failed to decode base64 XDR: ">> \o xdr_bytes.err)
    ELSE encode_outputs(parse_scval_from_xdr(xdr_bytes.val), output_types)

decode_scval_xdr_to_abi(xdr_base64, output_types) ==
    decode_xdr_bytes_to_abi(base64_decode(xdr_base64), output_types)

-----------------------------------------------------------------------------
(* Unsigned 32-bit quantities.  A u32 is a pair <<high, low>> of 16-bit     *)
(* limbs, so that values near 2^32 stay within TLC's 32-bit integers.       *)

Limb == 256 * 256

U32(n) == <<n \div Limb, n % Limb>>

DecDigits == <<"0","1","2","3","4","5","6","7","8","9">>

RECURSIVE parse_u32_digits(_, _)
parse_u32_digits(text, acc) ==
    IF text = <<>> THEN Some(acc)
    ELSE IF IndexOf(DecDigits, text[1]) = 0 THEN None
    ELSE LET lo == acc[2] * 10 + (IndexOf(DecDigits, text[1]) - 1)
             hi == acc[1] * 10 + (lo \div Limb)
         IN  IF hi >= Limb THEN None
             ELSE parse_u32_digits(Tail(text), <<hi, lo % Limb>>)

\* str::parse::<u32>().ok(): an optional '+', then at least one decimal
\* digit, and a value below 2^32
parse_u32(text) ==
    LET digits == IF text # <<>> /\ text[1] = "+" THEN Tail(text) ELSE text
    IN  IF digits = <<>> THEN None ELSE parse_u32_digits(digits, <<0, 0>>)

\* the exact sum of two u32 values; its high limb reaches Limb exactly when
\* the sum does not fit in 32 bits
u32_sum(a, b) == <<a[1] + b[1] + ((a[2] + b[2]) \div Limb), (a[2] + b[2]) % Limb>>

u32_overflows(a, b) == u32_sum(a, b)[1] >= Limb

\* a + b as a build without overflow checks computes it
u32_wrapping_add(a, b) == <<u32_sum(a, b)[1] % Limb, u32_sum(a, b)[2]>>

\* str::parse::<u64>().ok() for the account sequence; the account endpoint
\* reports a signed 64-bit sequence, the model's replies carry short ones
RECURSIVE parse_u64_digits(_, _)
parse_u64_digits(text, acc) ==
    IF text = <<>> THEN Some(acc)
    ELSE IF IndexOf(DecDigits, text[1]) = 0 THEN None
    ELSE parse_u64_digits(Tail(text), acc * 10 + (IndexOf(DecDigits, text[1]) - 1))

parse_u64(text) ==
    LET digits == IF text # <<>> /\ text[1] = "+" THEN Tail(text) ELSE text
    IN  IF digits = <<>> THEN None ELSE parse_u64_digits(digits, 0)

-----------------------------------------------------------------------------
(* stellar/client.rs: what the client makes of an HTTP exchange.  A reply   *)
(* is [kind |-> ...] with kind one of "transport_error", "http_error",      *)
(* "invalid_json", "rpc_error" (with message), "no_result", "bad_result",   *)
(* "result" (with the parsed result).                                       *)

send_request(reply) ==
    CASE reply.kind = "transport_error" -> Err(<<"Failed to send request to Soroban RPC">>)
      [] reply.kind = "http_error" -> Err(<<"Soroban RPC HTTP error: ">>)
      [] reply.kind = "invalid_json" -> Err(<<"Failed to parse Soroban RPC response">>)
      [] reply.kind = "rpc_error" -> Err(<<"Soroban RPC error ">> \o reply.message)
      [] OTHER -> Ok(reply)

simulate_transaction(reply) ==
    LET response == send_request(reply)
    IN  IF ~response.ok THEN response
        ELSE IF reply.kind = "no_result"
        THEN Err(<<"No result in simulateTransaction response">>)
        ELSE IF reply.kind = "bad_result"
        THEN Err(<<"Failed to parse simulateTransaction response">>)
        ELSE Ok(reply.result)

send_transaction(reply) ==
    LET response == send_request(reply)
    IN  IF ~response.ok THEN response
        ELSE IF reply.kind = "no_result"
        THEN Err(<<"No result in sendTransaction response">>)
        ELSE IF reply.kind = "bad_result"
        THEN Err(<<"Failed to parse sendTransaction response">>)
        ELSE Ok(reply.result)

\* the account endpoint: a reply is "transport_error", "http_error",
\* "invalid_json" or "result" with body.sequence an optional text
get_account_sequence(reply) ==
    CASE reply.kind = "transport_error" -> Err(<<"Failed to query Horizon for account">>)
      [] reply.kind = "http_error" -> Ok(0)
      [] reply.kind = "invalid_json" -> Err(<<"error decoding response body">>)
      [] OTHER ->
           LET text == IF reply.result.sequence.some THEN reply.result.sequence.v
                       ELSE <<"0">>
               sequence == parse_u64(text)
           IN  Ok(IF sequence.some THEN sequence.v ELSE 0)

-----------------------------------------------------------------------------
(* methods/eth.rs: helpers of the two handlers *)

PlaceholderAccount ==
    <<"G","A","A","Z","I","4","T","C","R","3","T","Y","5","O",
      "J","H","C","T","J","C","2","A","4","Q","S","Y","6","C",
      "J","W","J","H","5","I","A","J","T","G","K","I","N","2",
      "E","R","7","L","B","N","V","K","O","C","C","W","N">>

\* get_source_account_id.  The text returned for a well-formed secret key is
\* a parameter: the code as written returns PlaceholderAccount (55
\* characters), and documents that a full implementation returns the public
\* key derived from the secret (56 characters).
get_source_account_id(cfg, account) ==
    IF starts_with(cfg.stellar_secret_key, <<"S">>) /\ Len(cfg.stellar_secret_key) = 56
    THEN Ok(account)
    ELSE Err(<<"Invalid Stellar secret key format">>)

evm_address_to_contract_id(evm_address) == pad_left_64(strip_0x(evm_address))

stellar_hash_to_evm_hash(stellar_hash) ==
    IF starts_with(stellar_hash, <<"0", "x">>) THEN stellar_hash
    ELSE IF Len(stellar_hash) = 64 THEN <<"0", "x">> \o to_lowercase(stellar_hash)
    ELSE <<"0", "x">> \o pad_left_64(to_lowercase(stellar_hash))

\* decoded.function_name.unwrap_or_else(|| format!("fn_{}", hex::encode(selector)))
function_name_or_default(decoded) ==
    IF decoded.function_name.some THEN <<decoded.function_name.v>>
    ELSE <<"fn_">> \o hex_encode(decoded.selector)

\* the registry lookups decode_calldata performs: one, once the selector is read
calldata_lookups(calldata, contract_address) ==
    IF Len(calldata) < 4 THEN <<>>
    ELSE <<[address |-> contract_address, selector |-> Slice(calldata, 0, 4)]>>

SimulationFee == 100
DefaultResourceFee == 10000
FeeBuffer == 1000

\* A handler runs from one suspension point to the next.  Each stretch gives
\* where it suspends or stops, the request it awaits, the Result it returns,
\* its live local variables and the registry lookups it made.
Await(next, request, loc, looked) ==
    [next |-> next, request |-> Some(request), outcome |-> None,
     local |-> loc, lookups |-> looked]

Return(result, looked) ==
    [next |-> "done", request |-> None, outcome |-> Some(result),
     local |-> <<>>, lookups |-> looked]

Panic(looked) ==
    [next |-> "panicked", request |-> None, outcome |-> None,
     local |-> <<>>, lookups |-> looked]

AccountRequest(account_id) == [method |-> "GET /accounts", account |-> account_id]
SimulateRequest(tx_xdr) == [method |-> "simulateTransaction", transaction |-> tx_xdr]
SendRequest(tx_xdr) == [method |-> "sendTransaction", transaction |-> tx_xdr]

-----------------------------------------------------------------------------
(* methods/eth.rs: call (eth_call) *)

\* a faulty variant that lets calldata of one to three bytes through
calldata_is_empty(data_bytes) == Len(data_bytes) < 1

\* the empty-result short circuit
calldata_has_no_selector(data_bytes) == Len(data_bytes) < 4

\* call_obj["data"].as_str().or_else(|| call_obj["input"].as_str()).unwrap_or("0x")
call_data(call_obj) ==
    IF call_obj.data.some THEN call_obj.data.v
    ELSE IF call_obj.input.some THEN call_obj.input.v
    ELSE <<"0", "x">>

\* from the decoded calldata to the account-sequence query
call_invoke(to, decoded, source_account, looked) ==
    IF ~decoded.ok THEN Return(decoded, looked)
    ELSE IF ~source_account.ok THEN Return(source_account, looked)
    ELSE Await("await_sequence", AccountRequest(source_account.val),
               [to |-> to,
                selector |-> decoded.val.selector,
                function_name |-> function_name_or_default(decoded.val),
                scval_params |-> decoded.val.scval_params,
                source_account |-> source_account.val],
               looked)

\* from the parameters to the decoded calldata
call_start(params, cfg, account, l, map) ==
    LET to == params[1].to.v
        data_bytes == hex_decode(strip_0x(call_data(params[1])))
    IN  IF params = <<>>
        THEN Return(Err(<<"eth_call requires call object parameter">>), <<>>)
        ELSE IF ~params[1].to.some
        THEN Return(Err(<<"eth_call requires 'to' field">>), <<>>)
        ELSE IF ~data_bytes.ok
        THEN Return(Err(<<"Invalid calldata hex: ">> \o data_bytes.err), <<>>)
        ELSE IF calldata_has_no_selector(data_bytes.val)
        THEN Return(Ok(<<"0", "x">>), <<>>)
        ELSE call_invoke(to, decode_calldata(data_bytes.val, to, l, map),
                         get_source_account_id(cfg, account),
                         calldata_lookups(data_bytes.val, to))

call_simulate(loc, tx_xdr) ==
    IF ~tx_xdr.ok THEN Return(tx_xdr, <<>>)
    ELSE Await("await_simulate", SimulateRequest(tx_xdr.val), loc, <<>>)

\* client.get_account_sequence(..).await.unwrap_or(0)
sequence_or_zero(queried) == IF queried.ok THEN queried.val ELSE 0

\* from the account reply to the simulation request
call_after_sequence(loc, reply) ==
    call_simulate(loc,
                  build_soroban_invoke_tx(loc.source_account,
                                          sequence_or_zero(get_account_sequence(reply)) + 1,
                                          evm_address_to_contract_id(loc.to),
                                          loc.function_name, loc.scval_params,
                                          U32(SimulationFee)))

first_result_xdr(sim_result) ==
    IF /\ sim_result.results.some
       /\ sim_result.results.v # <<>>
       /\ sim_result.results.v[1].xdr.some
    THEN sim_result.results.v[1].xdr
    ELSE None

\* format!("0x{}", hex::encode(bytes)) of a conversion that succeeded
hex_result(bytes) == IF ~bytes.ok THEN bytes ELSE Ok(<<"0", "x">> \o hex_encode(bytes.val))

\* base64 decode(...).unwrap_or_default()
decode_or_default(decoded) == IF decoded.ok THEN decoded ELSE Ok(<<>>)

\* a faulty variant that never uses the declared output types
call_result_raw(xdr_result, func_info) ==
    IF ~xdr_result.some THEN Ok(<<"0", "x">>)
    ELSE hex_result(decode_or_default(base64_decode(xdr_result.v)))

\* the value returned for a simulation response that carries no error
call_result(xdr_result, func_info) ==
    IF ~xdr_result.some THEN Ok(<<"0", "x">>)
    ELSE IF func_info.some
    THEN hex_result(decode_scval_xdr_to_abi(xdr_result.v, func_info.v.outputs))
    ELSE hex_result(decode_or_default(base64_decode(xdr_result.v)))

\* the registry lookup made once a first result is at hand
result_lookup(xdr_result, loc, l, map) ==
    IF xdr_result.some THEN lookup_function(l, map, loc.to, loc.selector) ELSE None

result_lookups(xdr_result, loc) ==
    IF xdr_result.some THEN <<[address |-> loc.to, selector |-> loc.selector]>> ELSE <<>>

call_simulated(sim_result, loc, l, map) ==
    IF ~sim_result.ok THEN Return(sim_result, <<>>)
    ELSE IF sim_result.val.error.some
    THEN Return(Err(<<"Contract call reverted: ">> \o sim_result.val.error.v), <<>>)
    ELSE Return(call_result(first_result_xdr(sim_result.val),
                            result_lookup(first_result_xdr(sim_result.val), loc, l, map)),
                result_lookups(first_result_xdr(sim_result.val), loc))

\* from the simulation reply to the end
call_after_simulate(loc, reply, l, map) ==
    call_simulated(simulate_transaction(reply), loc, l, map)

-----------------------------------------------------------------------------
(* methods/eth.rs: send_raw_transaction (eth_sendRawTransaction) *)

is_deployment(decoded_tx) == ~decoded_tx.to.some

local_tx_hash(decoded_tx) == <<"0", "x">> \o decoded_tx.tx_hash

\* from the decoded calldata to the account-sequence query
send_invoke(tx_hash, to_hex, decoded, source_account, looked) ==
    IF ~decoded.ok THEN Return(decoded, looked)
    ELSE IF ~source_account.ok THEN Return(source_account, looked)
    ELSE Await("await_sequence", AccountRequest(source_account.val),
               [tx_hash |-> tx_hash,
                to_hex |-> to_hex,
                function_name |-> function_name_or_default(decoded.val),
                scval_params |-> decoded.val.scval_params,
                source_account |-> source_account.val],
               looked)

\* format!("0x{}", hex::encode(to_address))
to_hex_of(decoded_tx) == <<"0", "x">> \o hex_encode(decoded_tx.to.v)

\* a faulty variant that consults the registry before looking at the recipient
send_decoded_eager(decoded_tx, cfg, account, l, map) ==
    IF ~decoded_tx.ok THEN Return(decoded_tx, <<>>)
    ELSE Return(Ok(local_tx_hash(decoded_tx.val)),
                calldata_lookups(decoded_tx.val.data, <<"0", "x">>))

\* from the decoded transaction to the decoded calldata
send_decoded(decoded_tx, cfg, account, l, map) ==
    IF ~decoded_tx.ok THEN Return(decoded_tx, <<>>)
    ELSE IF is_deployment(decoded_tx.val)
    THEN Return(Ok(local_tx_hash(decoded_tx.val)), <<>>)
    ELSE IF Len(decoded_tx.val.data) >= 4
    THEN send_invoke(local_tx_hash(decoded_tx.val), to_hex_of(decoded_tx.val),
                     decode_calldata(decoded_tx.val.data, to_hex_of(decoded_tx.val), l, map),
                     get_source_account_id(cfg, account),
                     calldata_lookups(decoded_tx.val.data, to_hex_of(decoded_tx.val)))
    ELSE Return(Ok(local_tx_hash(decoded_tx.val)), <<>>)

\* from the parameters to the decoded transaction
send_start(params, cfg, account, l, map) ==
    LET raw_tx_bytes == hex_decode(strip_0x(params[1].v))
    IN  IF params = <<>> \/ ~params[1].some
        THEN Return(Err(<<"eth_sendRawTransaction requires raw tx hex">>), <<>>)
        ELSE IF ~raw_tx_bytes.ok
        THEN Return(Err(<<"Invalid raw transaction hex: ">> \o raw_tx_bytes.err), <<>>)
        ELSE send_decoded(decode_raw_transaction(raw_tx_bytes.val), cfg, account, l, map)

send_priced(loc, sequence, sim_tx_xdr) ==
    IF ~sim_tx_xdr.ok THEN Return(sim_tx_xdr, <<>>)
    ELSE Await("await_simulate", SimulateRequest(sim_tx_xdr.val),
               [tx_hash |-> loc.tx_hash,
                to_hex |-> loc.to_hex,
                function_name |-> loc.function_name,
                scval_params |-> loc.scval_params,
                source_account |-> loc.source_account,
                sequence |-> sequence],
               <<>>)

send_sequenced(loc, sequence) ==
    IF ~sequence.ok THEN Return(sequence, <<>>)
    ELSE send_priced(loc, sequence.val,
                     build_soroban_invoke_tx(loc.source_account, sequence.val + 1,
                                             evm_address_to_contract_id(loc.to_hex),
                                             loc.function_name, loc.scval_params,
                                             U32(SimulationFee)))

\* from the account reply to the pricing simulation request
send_after_sequence(loc, reply) == send_sequenced(loc, get_account_sequence(reply))

\* a faulty variant that overlooks the simulation's error field
simulation_failed_never(sim_result) == FALSE

\* if let Some(error) = &sim_result.error
simulation_failed(sim_result) == sim_result.error.some

\* sim_result.min_resource_fee.and_then(|f| f.parse::<u32>().ok()).unwrap_or(10000)
resource_fee_of(sim_result) ==
    LET parsed == IF sim_result.min_resource_fee.some
                  THEN parse_u32(sim_result.min_resource_fee.v)
                  ELSE None
    IN  IF parsed.some THEN parsed.v ELSE U32(DefaultResourceFee)

\* a faulty variant that prices the rebuilt transaction once more instead of
\* submitting it
send_submit_resimulate(loc, tx_xdr) ==
    IF ~tx_xdr.ok THEN Return(tx_xdr, <<>>)
    ELSE Await("await_simulate", SimulateRequest(tx_xdr.val), loc, <<>>)

send_submit(loc, tx_xdr) ==
    IF ~tx_xdr.ok THEN Return(tx_xdr, <<>>)
    ELSE Await("await_send", SendRequest(tx_xdr.val), loc, <<>>)

\* resource_fee + 1000 is a plain u32 addition: with overflow checks it
\* panics on overflow, without them it wraps
send_with_fee(loc, resource_fee, checks) ==
    IF checks /\ u32_overflows(resource_fee, U32(FeeBuffer)) THEN Panic(<<>>)
    ELSE send_submit(loc,
                     build_soroban_invoke_tx(loc.source_account, loc.sequence + 1,
                                             evm_address_to_contract_id(loc.to_hex),
                                             loc.function_name, loc.scval_params,
                                             u32_wrapping_add(resource_fee, U32(FeeBuffer))))

send_simulated(loc, sim_result, checks) ==
    IF ~sim_result.ok THEN Return(sim_result, <<>>)
    ELSE IF simulation_failed(sim_result.val)
    THEN Return(Err(<<"Transaction would revert: ">> \o sim_result.val.error.v), <<>>)
    ELSE send_with_fee(loc, resource_fee_of(sim_result.val), checks)

\* from the simulation reply to the submission request
send_after_simulate(loc, reply, checks) ==
    send_simulated(loc, simulate_transaction(reply), checks)

\* a faulty variant that answers every status with the local hash
submission_outcome_local(send_result, tx_hash) == Ok(tx_hash)

\* the match on the submission status
submission_outcome(send_result, tx_hash) ==
    IF send_result.status \in {"PENDING", "SUCCESS"}
    THEN Ok(stellar_hash_to_evm_hash(IF send_result.hash.some THEN send_result.hash.v
                                     ELSE <<>>))
    ELSE IF send_result.status \in {"ERROR", "FAILED"}
    THEN Err(<<"Transaction failed: ">>
             \o (IF send_result.error_result_xdr.some THEN send_result.error_result_xdr.v
                 ELSE <<"Unknown error">>))
    ELSE Ok(tx_hash)

\* from the submission reply to the end
send_after_submit(loc, reply) ==
    LET send_result == send_transaction(reply)
    IN  IF ~send_result.ok THEN Return(send_result, <<>>)
        ELSE Return(submission_outcome(send_result.val, loc.tx_hash), <<>>)

-----------------------------------------------------------------------------
(* The inputs: what clients and the two remote endpoints can present *)

AddressA == <<171>> \o Repeat(0, 18) \o <<1>>
AddressAText == <<"0", "x">> \o hex_encode(AddressA)
AddressAUpper == <<"0", "x", "A", "B">> \o SubSeq(hex_encode(AddressA), 3, 40)

TransferSelector == <<169, 5, 156, 187>>
BalanceOfSelector == <<112, 160, 130, 49>>
UnknownSelector == <<222, 173, 190, 239>>

AddressSlot == Repeat(0, 12) \o AddressA
AmountSlot == Repeat(0, 30) \o <<3, 232>>

Erc20Abi ==
    <<AbiEntry("function", Some("transfer"),
               <<AbiParam("to", <<"address">>), AbiParam("amount", <<"uint256">>)>>,
               <<AbiParam("", <<"bool">>)>>),
      AbiEntry("event", Some("Transfer"), <<AbiParam("from", <<"address">>)>>, <<>>),
      AbiEntry("function", Some("balanceOf"),
               <<AbiParam("owner", <<"address">>)>>,
               <<AbiParam("", <<"uint256">>)>>),
      AbiEntry("function", None, <<>>, <<>>)>>

VaultAbi ==
    <<AbiEntry("function", Some("totalSupply"), <<>>, <<AbiParam("", <<"uint256">>)>>),
      AbiEntry("function", Some("balanceOf"),
               <<AbiParam("owner", <<"address">>)>>,
               <<AbiParam("", <<"bytes">>)>>)>>

Abis == {Erc20Abi, VaultAbi}

CallObject(to, data, input) == [to |-> to, data |-> data, input |-> input]

HexText(bytes) == <<"0", "x">> \o hex_encode(bytes)

CallInputs ==
    {<<>>,
     <<CallObject(None, Some(HexText(BalanceOfSelector)), None)>>,
     <<CallObject(Some(AddressAText), None, None)>>,
     <<CallObject(Some(AddressAText), Some(HexText(<<112, 160, 130>>)), None)>>,
     <<CallObject(Some(AddressAText), Some(<<"0", "x", "z", "z">>), None)>>,
     <<CallObject(Some(AddressAUpper), None, Some(HexText(BalanceOfSelector \o AddressSlot)))>>,
     <<CallObject(Some(AddressAText), Some(HexText(BalanceOfSelector \o <<1, 2, 3>>)), None)>>,
     <<CallObject(Some(AddressAText), Some(HexText(UnknownSelector)), None)>>}

RawTx(items) == rlp_encode_list([i \in 1..Len(items) |-> rlp_encode_bytes(items[i])])

TransferCalldata == TransferSelector \o AddressSlot \o AmountSlot

LegacyTx(to, data) == RawTx(<<<<5>>, <<1>>, <<82, 8>>, to, <<>>, data, <<37>>, <<1>>, <<2>>>>)
UnsignedTx(to, data) == RawTx(<<<<5>>, <<1>>, <<82, 8>>, to, <<>>, data>>)
Eip1559Tx(to, data) ==
    <<2>> \o rlp_encode_list(
        [i \in 1..8 |-> rlp_encode_bytes(
            <<<<1>>, <<5>>, <<1>>, <<2>>, <<82, 8>>, to, <<>>, data>>[i])]
        \o <<<<192>>, <<1>>, <<128 + 1, 200>>, <<2>>>>)

SendInputs ==
    {<<>>,
     <<None>>,
     <<Some(<<"0", "x", "f">>)>>,
     <<Some(HexText(<<131, 1, 2, 3>>))>>,
     <<Some(HexText(RawTx(<<<<1>>, <<2>>, <<3>>>>)))>>,
     <<Some(HexText(LegacyTx(AddressA, TransferCalldata)))>>,
     <<Some(HexText(LegacyTx(<<>>, TransferCalldata)))>>,
     <<Some(HexText(LegacyTx(AddressA, <<>>)))>>,
     <<Some(HexText(UnsignedTx(AddressA, <<112, 160>>)))>>,
     <<Some(HexText(Eip1559Tx(AddressA, UnknownSelector \o <<7>>)))>>,
     <<Some(HexText(LegacyTx(AddressA, TransferSelector \o <<1, 2, 3>>)))>>}

Reply(k) == [kind |-> k]
Result(v) == [kind |-> "result", result |-> v]

SorobanFailures ==
    {Reply("transport_error"), Reply("http_error"), Reply("invalid_json"),
     [kind |-> "rpc_error", message |-> <<"-32602: invalid params">>],
     Reply("no_result"), Reply("bad_result")}

AccountReplies ==
    {Reply("transport_error"), Reply("http_error"), Reply("invalid_json"),
     Result([sequence |-> None]),
     Result([sequence |-> Some(<<"7">>)]),
     Result([sequence |-> Some(<<"x", "7">>)])}

SimulateResult(error, min_resource_fee, results) ==
    [error |-> error, min_resource_fee |-> min_resource_fee, results |-> results]

HostError == <<"HostError: Error(Contract, #1)">>

\* the fee texts a pricing simulation may carry: none, not a number, an
\* ordinary fee, the largest fee whose sum with the buffer fits, the smallest
\* that does not, the largest u32, and a number beyond u32
FeeTexts ==
    {None,
     Some(<<"f", "e", "e">>),
     Some(<<"5", "0", "0", "0">>),
     Some(<<"4", "2", "9", "4", "9", "6", "6", "2", "9", "5">>),
     Some(<<"4", "2", "9", "4", "9", "6", "6", "2", "9", "6">>),
     Some(<<"4", "2", "9", "4", "9", "6", "7", "2", "9", "5">>),
     Some(<<"4", "2", "9", "4", "9", "6", "7", "2", "9", "6">>)}

PricingReplies ==
    SorobanFailures
    \cup {Result(SimulateResult(Some(HostError), fee, None)) :
            fee \in {None, Some(<<"5", "0", "0", "0">>)}}
    \cup {Result(SimulateResult(None, fee, None)) : fee \in FeeTexts}

XdrU256 == <<"A","A","A","A","C","w","A","A","A","A","A","A","A","A","A","A","A","A","A","A","A","A","A","A","A","A","A","A","A","A","A","A","A","A","A","A","A","A","A","A","A","A","A","A","A","A","P","o">>
XdrBool == <<"A","A","A","A","A","A","A","A","A","A","E","=">>
XdrBytes == <<"A","A","A","A","D","Q","A","A","A","A","M","B","A","g","M","A">>
XdrTruncated == <<"A","A","A","=">>
XdrNotBase64 == <<"!", "!", "!", "!">>

SimResults(xdr) == Some(<<[xdr |-> xdr]>>)

ReadReplies ==
    SorobanFailures
    \cup {Result(SimulateResult(Some(HostError), None, results)) :
            results \in {None, SimResults(Some(XdrU256))}}
    \cup {Result(SimulateResult(None, None, results)) :
            results \in {None, Some(<<>>), SimResults(None)}
                        \cup {SimResults(Some(xdr)) :
                                xdr \in {XdrU256, XdrBool, XdrBytes,
                                         XdrTruncated, XdrNotBase64}}}

SendResult(status, hash, error_result_xdr) ==
    [status |-> status, hash |-> hash, error_result_xdr |-> error_result_xdr]

RemoteHash == [i \in 1..64 |-> IF i % 2 = 1 THEN "A" ELSE "9"]

SubmitReplies ==
    SorobanFailures
    \cup {Result(SendResult(status, hash, None)) :
            status \in {"PENDING", "SUCCESS", "TRY_AGAIN_LATER"},
            hash \in {None, Some(RemoteHash), Some(<<"0", "x", "A", "B">>),
                      Some(<<"A", "b", "c">>)}}
    \cup {Result(SendResult(status, Some(RemoteHash), xdr)) :
            status \in {"ERROR", "FAILED", "DUPLICATE"},
            xdr \in {None, Some(<<"A", "A", "A", "A">>)}}

SecretKeys == {<<"S">> \o Repeat("A", 55), <<"s", "e", "c", "r", "e", "t">>}

\* a 56-character account id that decodes: the all-zero public key
WellFormedAccount == <<"G">> \o Repeat("A", 52) \o <<"W", "H", "F">>

-----------------------------------------------------------------------------
(* The gateway serving handler invocations while contracts are registered *)

Calls == {"c1"}

MaxRegs == 2

Unlocked == [writer |-> FALSE, readers |-> 0, poisoned |-> FALSE]

\* the threads that use the registry directly
Writers == {"w1"}
Readers == {"r1", "r2"}

Idle == [pc |-> "idle"]

EmptyMap == [a \in {} |-> <<>>]

Init ==
    /\ contracts = EmptyMap
    /\ lock = Unlocked
    /\ reg = [w \in Writers |-> Idle]
    /\ rd = [r \in Readers |-> Idle]
    /\ config \in {[stellar_secret_key |-> k] : k \in SecretKeys}
    /\ derived_account \in {PlaceholderAccount, WellFormedAccount}
    /\ overflow_checks \in BOOLEAN
    /\ pc = [c \in Calls |-> "idle"]
    /\ kind = [c \in Calls |-> "none"]
    /\ rpc_params = [c \in Calls |-> <<>>]
    /\ local = [c \in Calls |-> <<>>]
    /\ outcome = [c \in Calls |-> None]
    /\ log = [c \in Calls |-> <<>>]
    /\ lookups = [c \in Calls |-> <<>>]
    /\ regs_left = MaxRegs
    /\ last = [op |-> "none"]

\* the handler moves on to its next suspension point or to its end
\* a lookup as it is logged: the key, and the entry the registry held for it
\* when the lookup was made
Looked(key) ==
    [address |-> key.address, selector |-> key.selector,
     found |-> lookup_function(lock, contracts, key.address, key.selector)]

Advance(c, step, replied) ==
    /\ pc' = [pc EXCEPT ![c] = step.next]
    /\ local' = [local EXCEPT ![c] = step.local]
    /\ outcome' = [outcome EXCEPT ![c] = step.outcome]
    /\ lookups' = [lookups EXCEPT ![c] =
                      @ \o [i \in 1..Len(step.lookups) |-> Looked(step.lookups[i])]]
    /\ log' = [log EXCEPT ![c] =
                  replied \o (IF step.request.some
                              THEN <<[request |-> step.request.v, reply |-> None]>>
                              ELSE <<>>)]

\* the log once the pending request has been answered
Answered(c, reply) ==
    [log[c] EXCEPT ![Len(log[c])] = [request |-> @.request, reply |-> Some(reply)]]

Untouched == UNCHANGED <<contracts, lock, reg, rd, config,
                         derived_account, overflow_checks, regs_left, last>>

CallStart(c) ==
    /\ pc[c] = "idle"
    /\ \E params \in CallInputs :
          /\ Advance(c, call_start(params, config, derived_account, lock, contracts),
                     log[c])
          /\ rpc_params' = [rpc_params EXCEPT ![c] = params]
    /\ kind' = [kind EXCEPT ![c] = "call"]
    /\ Untouched

CallSequenceReturns(c) ==
    /\ kind[c] = "call" /\ pc[c] = "await_sequence"
    /\ \E reply \in AccountReplies :
          Advance(c, call_after_sequence(local[c], reply), Answered(c, reply))
    /\ UNCHANGED <<kind, rpc_params>>
    /\ Untouched

CallSimulateReturns(c) ==
    /\ kind[c] = "call" /\ pc[c] = "await_simulate"
    /\ \E reply \in ReadReplies :
          Advance(c, call_after_simulate(local[c], reply, lock, contracts),
                  Answered(c, reply))
    /\ UNCHANGED <<kind, rpc_params>>
    /\ Untouched

SendStart(c) ==
    /\ pc[c] = "idle"
    /\ \E params \in SendInputs :
          /\ Advance(c, send_start(params, config, derived_account, lock, contracts),
                     log[c])
          /\ rpc_params' = [rpc_params EXCEPT ![c] = params]
    /\ kind' = [kind EXCEPT ![c] = "send"]
    /\ Untouched

SendSequenceReturns(c) ==
    /\ kind[c] = "send" /\ pc[c] = "await_sequence"
    /\ \E reply \in AccountReplies :
          Advance(c, send_after_sequence(local[c], reply), Answered(c, reply))
    /\ UNCHANGED <<kind, rpc_params>>
    /\ Untouched

SendSimulateReturns(c) ==
    /\ kind[c] = "send" /\ pc[c] = "await_simulate"
    /\ \E reply \in PricingReplies :
          Advance(c, send_after_simulate(local[c], reply, overflow_checks),
                  Answered(c, reply))
    /\ UNCHANGED <<kind, rpc_params>>
    /\ Untouched

SendSubmitReturns(c) ==
    /\ kind[c] = "send" /\ pc[c] = "await_send"
    /\ \E reply \in SubmitReplies :
          Advance(c, send_after_submit(local[c], reply), Answered(c, reply))
    /\ UNCHANGED <<kind, rpc_params>>
    /\ Untouched

\* register_contract as the handlers see it: the map changes in one step,
\* under the write lock
register_contract(map, address, abi) ==
    map_insert(map, normalize_address(address), collect_functions(<<>>, abi))

RegisterContract ==
    /\ regs_left > 0
    /\ \E address \in {AddressAText, AddressAUpper}, abi \in Abis :
          contracts' = register_contract(contracts, address, abi)
    /\ regs_left' = regs_left - 1
    /\ UNCHANGED <<lock, reg, rd, config, derived_account, overflow_checks,
                   pc, kind, rpc_params, local, outcome, log, lookups, last>>

Next ==
    \/ \E c \in Calls :
          \/ CallStart(c)
          \/ CallSequenceReturns(c)
          \/ CallSimulateReturns(c)
          \/ SendStart(c)
          \/ SendSequenceReturns(c)
          \/ SendSimulateReturns(c)
          \/ SendSubmitReturns(c)
    \/ RegisterContract

Spec == Init /\ [][Next]_vars

-----------------------------------------------------------------------------
(* methods/eth.rs: two eth_sendRawTransaction invocations in flight at once, *)
(* against a ledger that keeps the source account's sequence number: the    *)
(* account endpoint reports the number as it stands, the ledger applies a   *)
(* submitted envelope that carries the next number and rejects any other.   *)

Senders == {"c1", "c2"}

\* the invocation has submitted an envelope; the request it made
submitted(c) ==
    SelectSeq(log[c], LAMBDA e : e.request.method = "sendTransaction")

\* the ledger has applied the envelope of the invocation
applied(c) ==
    \E k \in 1..Len(log[c]) :
        /\ log[c][k].request.method = "sendTransaction"
        /\ log[c][k].reply.some
        /\ log[c][k].reply.v.kind = "result"
        /\ log[c][k].reply.v.result.status = "PENDING"

\* the account's sequence number as the account endpoint prints it: 7 at
\* first, one more for every envelope applied
LedgerSequenceText ==
    <<<<"7">>, <<"8">>, <<"9">>>>[1 + Cardinality({c \in Senders : applied(c)})]

InitSenders ==
    /\ contracts \in {EmptyMap, register_contract(EmptyMap, AddressAText, Erc20Abi)}
    /\ lock = Unlocked
    /\ reg = [w \in Writers |-> Idle]
    /\ rd = [r \in Readers |-> Idle]
    /\ config = [stellar_secret_key |-> <<"S">> \o Repeat("A", 55)]
    /\ derived_account = WellFormedAccount
    /\ overflow_checks \in BOOLEAN
    /\ pc = [c \in Senders |-> "idle"]
    /\ kind = [c \in Senders |-> "none"]
    /\ rpc_params = [c \in Senders |-> <<>>]
    /\ local = [c \in Senders |-> <<>>]
    /\ outcome = [c \in Senders |-> None]
    /\ log = [c \in Senders |-> <<>>]
    /\ lookups = [c \in Senders |-> <<>>]
    /\ regs_left = 0
    /\ last = [op |-> "none"]

SenderStart(c) ==
    /\ pc[c] = "idle"
    /\ \E params \in {<<Some(HexText(LegacyTx(AddressA, TransferCalldata)))>>,
                       <<Some(HexText(Eip1559Tx(AddressA, UnknownSelector \o <<7>>)))>>} :
          /\ Advance(c, send_start(params, config, derived_account, lock, contracts),
                     log[c])
          /\ rpc_params' = [rpc_params EXCEPT ![c] = params]
    /\ kind' = [kind EXCEPT ![c] = "send"]
    /\ Untouched

SenderSequenceReturns(c) ==
    /\ kind[c] = "send" /\ pc[c] = "await_sequence"
    /\ \E reply \in {Result([sequence |-> Some(LedgerSequenceText)]),
                      Reply("transport_error")} :
          Advance(c, send_after_sequence(local[c], reply), Answered(c, reply))
    /\ UNCHANGED <<kind, rpc_params>>
    /\ Untouched

SenderSimulateReturns(c) ==
    /\ kind[c] = "send" /\ pc[c] = "await_simulate"
    /\ \E reply \in {Result(SimulateResult(None, None, None)),
                      Result(SimulateResult(None, Some(<<"5", "0", "0", "0">>), None)),
                      Result(SimulateResult(Some(HostError), None, None))} :
          Advance(c, send_after_simulate(local[c], reply, overflow_checks),
                  Answered(c, reply))
    /\ UNCHANGED <<kind, rpc_params>>
    /\ Untouched

\* the ledger applies the envelope that carries the account's next sequence
\* number and rejects every other
SenderSubmitReturns(c) ==
    /\ kind[c] = "send" /\ pc[c] = "await_send"
    /\ LET next == parse_u64(LedgerSequenceText).v + 1
           reply == IF submitted(c)[1].request.transaction.sequence_number = next
                    THEN Result(SendResult("PENDING", Some(RemoteHash), None))
                    ELSE Result(SendResult("ERROR", Some(RemoteHash),
                                           Some(<<"A", "A", "A", "A">>)))
       IN  Advance(c, send_after_submit(local[c], reply), Answered(c, reply))
    /\ UNCHANGED <<kind, rpc_params>>
    /\ Untouched

NextSenders ==
    \E c \in Senders :
        \/ SenderStart(c)
        \/ SenderSequenceReturns(c)
        \/ SenderSimulateReturns(c)
        \/ SenderSubmitReturns(c)

SpecSenders == InitSenders /\ [][NextSenders]_vars

-----------------------------------------------------------------------------
(* translator/abi.rs: the registry under its RwLock, step by step.  A writer *)
(* runs register_contract: it builds the function list in a local vector,   *)
(* then takes the write lock, inserts the list and drops the lock.  A reader *)
(* runs one of the four read operations: it takes the read lock, gets the   *)
(* address's list and walks it in place, then drops the lock.               *)

\* a faulty variant of the lock that grants a write guard while read guards
\* are out
can_write_among_readers(l) == ~l.writer

\* self.contracts.write(): granted when no guard is out
can_write(l) == ~l.writer /\ l.readers = 0

\* self.contracts.read(): granted when no write guard is out
can_read(l) == ~l.writer

HandlersUntouched ==
    UNCHANGED <<config, derived_account, overflow_checks, pc, kind, rpc_params,
                local, outcome, log, lookups, last>>

InitRegistry ==
    /\ Init
    /\ Len(config.stellar_secret_key) = 56
    /\ derived_account = PlaceholderAccount
    /\ ~overflow_checks

\* let addr = normalize_address(address); let mut functions = Vec::new();
RegisterBegin(w) ==
    /\ reg[w].pc = "idle"
    /\ regs_left > 0
    /\ \E address \in {AddressAText, AddressAUpper}, abi \in Abis :
          reg' = [reg EXCEPT ![w] = [pc |-> "loop",
                                     addr |-> normalize_address(address),
                                     abi |-> abi,
                                     functions |-> <<>>]]
    /\ regs_left' = regs_left - 1
    /\ UNCHANGED <<contracts, lock, rd>>
    /\ HandlersUntouched

\* one turn of: for entry in abi { ... functions.push(..) }
RegisterPush(w) ==
    /\ reg[w].pc = "loop"
    /\ reg[w].abi # <<>>
    /\ reg' = [reg EXCEPT ![w].functions = push_function(@, Head(reg[w].abi)),
                          ![w].abi = Tail(@)]
    /\ UNCHANGED <<contracts, lock, rd, regs_left>>
    /\ HandlersUntouched

\* let mut contracts = self.contracts.write()...
RegisterLock(w) ==
    /\ reg[w].pc = "loop"
    /\ reg[w].abi = <<>>
    /\ can_write(lock)
    /\ lock' = [lock EXCEPT !.writer = TRUE]
    /\ reg' = [reg EXCEPT ![w].pc = "insert"]
    /\ UNCHANGED <<contracts, rd, regs_left>>
    /\ HandlersUntouched

\* contracts.insert(addr, functions)
RegisterInsert(w) ==
    /\ reg[w].pc = "insert"
    /\ contracts' = map_insert(contracts, reg[w].addr, reg[w].functions)
    /\ reg' = [reg EXCEPT ![w].pc = "drop"]
    /\ UNCHANGED <<lock, rd, regs_left>>
    /\ HandlersUntouched

\* Ok(()): the write guard is dropped
RegisterUnlock(w) ==
    /\ reg[w].pc = "drop"
    /\ lock' = [lock EXCEPT !.writer = FALSE]
    /\ reg' = [reg EXCEPT ![w] = Idle]
    /\ UNCHANGED <<contracts, rd, regs_left>>
    /\ HandlersUntouched

\* the read operations and the keys they are called with
ReadOps ==
    {[op |-> "lookup_function", selector |-> k, name |-> ""] :
        k \in {BalanceOfSelector, UnknownSelector}}
    \cup {[op |-> "lookup_function_by_name", selector |-> <<>>, name |-> "balanceOf"],
          [op |-> "has_contract", selector |-> <<>>, name |-> ""],
          [op |-> "get_selectors", selector |-> <<>>, name |-> ""]}

\* let addr = normalize_address(address);
ReadBegin(r) ==
    /\ rd[r].pc \in {"idle", "done"}
    /\ \E call \in ReadOps, address \in {AddressAText, AddressAUpper} :
          rd' = [rd EXCEPT ![r] = [pc |-> "lock", op |-> call.op,
                                   selector |-> call.selector, name |-> call.name,
                                   addr |-> normalize_address(address),
                                   view |-> None, i |-> 0, acc |-> <<>>,
                                   result |-> None]]
    /\ UNCHANGED <<contracts, lock, reg, regs_left>>
    /\ HandlersUntouched

\* let contracts = self.contracts.read()...; view remembers the list the
\* address had at this moment
ReadLock(r) ==
    /\ rd[r].pc = "lock"
    /\ can_read(lock)
    /\ lock' = [lock EXCEPT !.readers = @ + 1]
    /\ rd' = [rd EXCEPT ![r].pc = "get",
                        ![r].view = IF rd[r].addr \in DOMAIN contracts
                                    THEN Some(contracts[rd[r].addr]) ELSE None]
    /\ UNCHANGED <<contracts, reg, regs_left>>
    /\ HandlersUntouched

\* what a read operation answers for an address that is not in the map
answer_absent(op) ==
    CASE op = "has_contract" -> FALSE
      [] op = "get_selectors" -> <<>>
      [] OTHER -> None

\* contracts.get(&addr) / contracts.contains_key(&addr)
ReadGet(r) ==
    /\ rd[r].pc = "get"
    /\ rd' = IF rd[r].addr \notin DOMAIN contracts
             THEN [rd EXCEPT ![r].pc = "drop", ![r].result = answer_absent(rd[r].op)]
             ELSE IF rd[r].op = "has_contract"
             THEN [rd EXCEPT ![r].pc = "drop", ![r].result = TRUE]
             ELSE [rd EXCEPT ![r].pc = "scan", ![r].i = 1]
    /\ UNCHANGED <<contracts, lock, reg, regs_left>>
    /\ HandlersUntouched

\* whether the function a lookup is looking at is the one it looks for
lookup_matches(op, selector, name, f) ==
    IF op = "lookup_function" THEN f.selector = selector ELSE f.name = name

\* one turn of functions.iter().find(..) / funcs.iter().map(..).collect(),
\* reading the list in place
ReadScan(r) ==
    /\ rd[r].pc = "scan"
    /\ LET functions == contracts[rd[r].addr]
           i == rd[r].i
       IN  rd' = IF i > Len(functions)
                 THEN [rd EXCEPT ![r].pc = "drop",
                                 ![r].result = IF rd[r].op = "get_selectors"
                                               THEN rd[r].acc ELSE None]
                 ELSE IF rd[r].op = "get_selectors"
                 THEN [rd EXCEPT ![r].acc = Append(@, functions[i].selector),
                                 ![r].i = i + 1]
                 ELSE IF lookup_matches(rd[r].op, rd[r].selector, rd[r].name,
                                        functions[i])
                 THEN [rd EXCEPT ![r].pc = "drop", ![r].result = Some(functions[i])]
                 ELSE [rd EXCEPT ![r].i = i + 1]
    /\ UNCHANGED <<contracts, lock, reg, regs_left>>
    /\ HandlersUntouched

\* the operation returns: the read guard is dropped
ReadUnlock(r) ==
    /\ rd[r].pc = "drop"
    /\ lock' = [lock EXCEPT !.readers = @ - 1]
    /\ rd' = [rd EXCEPT ![r].pc = "done"]
    /\ UNCHANGED <<contracts, reg, regs_left>>
    /\ HandlersUntouched

NextRegistry ==
    \/ \E w \in Writers :
          \/ RegisterBegin(w)
          \/ RegisterPush(w)
          \/ RegisterLock(w)
          \/ RegisterInsert(w)
          \/ RegisterUnlock(w)
    \/ \E r \in Readers :
          \/ ReadBegin(r)
          \/ ReadLock(r)
          \/ ReadGet(r)
          \/ ReadScan(r)
          \/ ReadUnlock(r)

SpecRegistry == InitRegistry /\ [][NextRegistry]_vars

-----------------------------------------------------------------------------
(* translator/abi.rs: the registry call by call.  One caller registers      *)
(* ABIs and reads the registry; each call runs to its end before the next.  *)
(* The write guard can be dropped by a panic (HashMap::insert is the only   *)
(* code that runs under it), which poisons the lock for every later call.   *)

AddressB == <<205>> \o Repeat(0, 18) \o <<2>>
AddressBText == <<"0", "x">> \o hex_encode(AddressB)
TotalSupplySelector == <<24, 22, 13, 221>>

\* an ABI that lists balanceOf(address) twice, with different outputs
ProxyAbi ==
    <<AbiEntry("function", Some("balanceOf"),
               <<AbiParam("owner", <<"address">>)>>,
               <<AbiParam("", <<"uint256">>)>>),
      AbiEntry("function", Some("transfer"),
               <<AbiParam("to", <<"address">>), AbiParam("amount", <<"uint256">>)>>,
               <<AbiParam("", <<"bool">>)>>),
      AbiEntry("function", Some("balanceOf"),
               <<AbiParam("account", <<"address">>)>>,
               <<AbiParam("", <<"bytes">>)>>)>>

AbiInputs == {Erc20Abi, VaultAbi, ProxyAbi}
AbiAddresses == {AddressAText, AddressAUpper, AddressBText}
AbiSelectors == {TransferSelector, BalanceOfSelector, TotalSupplySelector, UnknownSelector}
AbiNames == {"transfer", "balanceOf", "totalSupply", "mint"}

\* register_contract with its Result: self.contracts.write() fails on a
\* poisoned lock, after the function list was built and before the insert
try_register_contract(l, map, address, abi) ==
    IF l.poisoned
    THEN [map |-> map, result |-> Err(<<"Lock poisoned: ">>)]
    ELSE [map |-> register_contract(map, address, abi), result |-> Ok(<<>>)]

\* one of the four read operations
read_registry(op, l, map, address, selector, name) ==
    CASE op = "lookup_function" -> lookup_function(l, map, address, selector)
      [] op = "lookup_function_by_name" -> lookup_function_by_name(l, map, address, name)
      [] op = "has_contract" -> has_contract(l, map, address)
      [] op = "get_selectors" -> get_selectors(l, map, address)

AbiReadOps == {"lookup_function", "lookup_function_by_name", "has_contract", "get_selectors"}

\* the read calls the caller makes; an operation that takes no selector or no
\* name is given the empty one
AbiReads ==
    {[op |-> "lookup_function", address |-> a, selector |-> s, name |-> ""] :
        a \in AbiAddresses, s \in AbiSelectors}
    \cup {[op |-> "lookup_function_by_name", address |-> a, selector |-> <<>>, name |-> n] :
        a \in AbiAddresses, n \in AbiNames}
    \cup {[op |-> o, address |-> a, selector |-> <<>>, name |-> ""] :
        o \in {"has_contract", "get_selectors"}, a \in AbiAddresses}

AbiUntouched ==
    UNCHANGED <<reg, rd, config, derived_account, overflow_checks, pc, kind,
                rpc_params, local, outcome, log, lookups>>

AbiRegister ==
    /\ regs_left > 0
    /\ \E address \in AbiAddresses, abi \in AbiInputs :
          LET done == try_register_contract(lock, contracts, address, abi)
          IN  /\ contracts' = done.map
              /\ last' = [op |-> "register_contract", address |-> address,
                          abi |-> abi, before |-> contracts,
                          result |-> done.result]
    /\ regs_left' = regs_left - 1
    /\ UNCHANGED lock
    /\ AbiUntouched

\* contracts.insert panics while the write guard is out: the guard is dropped
\* during the unwinding and the lock is poisoned; the map is as it was
AbiInsertPanics ==
    /\ regs_left > 0
    /\ ~lock.poisoned
    /\ contracts # EmptyMap
    /\ lock' = [lock EXCEPT !.poisoned = TRUE]
    /\ last' = [op |-> "panic", before |-> contracts]
    /\ regs_left' = regs_left - 1
    /\ UNCHANGED contracts
    /\ AbiUntouched

AbiRead ==
    /\ \E read \in AbiReads :
          last' = [op |-> read.op, address |-> read.address,
                   selector |-> read.selector, name |-> read.name,
                   before |-> contracts,
                   result |-> read_registry(read.op, lock, contracts, read.address,
                                            read.selector, read.name)]
    /\ UNCHANGED <<contracts, lock, regs_left>>
    /\ AbiUntouched

\* the calldata decoded against the registry: too short, empty or partial or
\* whole parameters after a selector
AbiCalldata ==
    {<<169, 5, 156>>}
    \cup {s \o p : s \in {TransferSelector, BalanceOfSelector, UnknownSelector},
                    p \in {<<>>, <<1>>, AddressSlot, AddressSlot \o AmountSlot}}

\* decode_calldata(calldata, address, registry)
AbiDecodeCalldata ==
    /\ \E calldata \in AbiCalldata, address \in AbiAddresses :
          last' = [op |-> "decode_calldata", address |-> address,
                   calldata |-> calldata, before |-> contracts,
                   result |-> decode_calldata(calldata, address, lock, contracts)]
    /\ UNCHANGED <<contracts, lock, regs_left>>
    /\ AbiUntouched

NextAbi ==
    \/ AbiRegister
    \/ AbiInsertPanics
    \/ AbiRead
    \/ AbiDecodeCalldata

SpecAbi == InitRegistry /\ [][NextAbi]_vars

-----------------------------------------------------------------------------
(* translator/scval.rs: ScVal::to_xdr.  Integers are held as their          *)
(* big-endian bytes (U256 and I256 as four 8-byte limbs), a Bool as a       *)
(* boolean, Str and Symbol as their UTF-8 bytes, an Address as its kind and *)
(* 32-byte key, a Vec as a sequence of ScVal and a Map as a sequence of     *)
(* key-value pairs.                                                         *)

\* (n as u32).to_be_bytes(), for n below 2^24
u32_be_bytes(n) == <<0, n \div 65536, (n \div 256) % 256, n % 256>>

\* XDR variable-length opaque: length + data + padding
xdr_opaque(data) ==
    u32_be_bytes(Len(data)) \o data \o Repeat(0, (4 - (Len(data) % 4)) % 4)

RECURSIVE to_xdr(_)
to_xdr(scval) ==
    LET disc(k) == u32_be_bytes(k)
        v == scval.v
        each(items) == [i \in 1..Len(items) |-> to_xdr(items[i])]
        pair(entries) == [i \in 1..Len(entries) |->
                             to_xdr(entries[i][1]) \o to_xdr(entries[i][2])]
    IN  CASE scval.tag = "Bool" -> disc(0) \o u32_be_bytes(IF v THEN 1 ELSE 0)
          [] scval.tag = "Void" -> disc(1)
          [] scval.tag = "U32" -> disc(3) \o v
          [] scval.tag = "I32" -> disc(4) \o v
          [] scval.tag = "U64" -> disc(5) \o v
          [] scval.tag = "I64" -> disc(6) \o v
          [] scval.tag = "U128" -> disc(9) \o Slice(v, 0, 8) \o Slice(v, 8, 16)
          [] scval.tag = "I128" -> disc(10) \o Slice(v, 0, 8) \o Slice(v, 8, 16)
          [] scval.tag = "U256" -> disc(11) \o Concat(v)
          [] scval.tag = "I256" -> disc(12) \o Concat(v)
          [] scval.tag = "Bytes" -> disc(13) \o xdr_opaque(v)
          [] scval.tag = "Str" -> disc(14) \o xdr_opaque(v)
          [] scval.tag = "Symbol" -> disc(15) \o xdr_opaque(v)
          [] scval.tag = "Address" ->
                disc(18) \o u32_be_bytes(IF v.kind = "Account" THEN 0 ELSE 1) \o v.key
          [] scval.tag = "Vec" ->
                disc(16) \o u32_be_bytes(1) \o u32_be_bytes(Len(v)) \o Concat(each(v))
          [] scval.tag = "Map" ->
                disc(17) \o u32_be_bytes(1) \o u32_be_bytes(Len(v)) \o Concat(pair(v))

-----------------------------------------------------------------------------
(* methods/eth.rs and emulator/block.rs: eth_getBlockByNumber, from the      *)
(* latest ledger on.  A u64 is its 8 big-endian bytes.                       *)

\* the text without its leading zeros
RECURSIVE trim_zeros(_)
trim_zeros(digits) ==
    IF digits # <<>> /\ Head(digits) = "0" THEN trim_zeros(Tail(digits)) ELSE digits

\* u64::from_str_radix(text, 16): an optional +, then hex digits of either
\* case; empty, a foreign character or a value beyond 64 bits is an error
u64_from_str_radix_16(text) ==
    LET digits == IF text # <<>> /\ Head(text) = "+" THEN Tail(text) ELSE text
        significant == trim_zeros(digits)
    IN  IF digits = <<>> \/ \E i \in 1..Len(digits) : HexValue(digits[i]) < 0 THEN None
        ELSE IF Len(significant) > 16 THEN None
        ELSE Some(hex_decode(Repeat("0", 16 - Len(significant)) \o significant).val)

\* the target ledger, and whether latest_ledger + 1 overflowed
parse_block_number(block_param, latest_ledger) ==
    CASE block_param \in {<<"l", "a", "t", "e", "s", "t">>, <<"s", "a", "f", "e">>, <<"f", "i", "n", "a", "l", "i", "z", "e", "d">>} ->
           [val |-> latest_ledger, overflow |-> FALSE]
      [] block_param = <<"e", "a", "r", "l", "i", "e", "s", "t">> -> [val |-> usize_of(0), overflow |-> FALSE]
      [] block_param = <<"p", "e", "n", "d", "i", "n", "g">> -> usize_add(latest_ledger, usize_of(1))
      [] OTHER ->
           LET parsed == u64_from_str_radix_16(strip_0x(block_param))
           IN  [val |-> IF parsed.some THEN parsed.v ELSE latest_ledger,
                overflow |-> FALSE]

\* a - b in 64 bits: the wrapped difference and whether it went below zero
u64_sub(a, b) == [val |-> be_sub(a, b), overflow |-> ~be_ge(a, b)]

\* now.saturating_sub(time_diff)
saturating_sub(a, b) == IF be_ge(a, b) THEN be_sub(a, b) ELSE usize_of(0)

\* format!("0x{:x}", n)
format_hex(n) ==
    LET digits == trim_zeros(hex_encode(n))
    IN  <<"0", "x">> \o (IF digits = <<>> THEN <<"0">> ELSE digits)

\* (latest_ledger.sequence - target_ledger) * 5, step by step
time_diff_of(latest, target) ==
    LET difference == u64_sub(latest, target)
        product == usize_mul(difference.val, 5)
    IN  [val |-> product.val, underflow |-> difference.overflow,
         overflow |-> product.overflow]

\* get_block_by_number once the latest ledger is known: the block's number
\* and timestamp, or a panic where an overflow check fails
get_block_by_number(block_param, latest, now, checks) ==
    LET target == parse_block_number(block_param, latest)
        time_diff == time_diff_of(latest, target.val)
        close_time == IF target.val = latest THEN now
                      ELSE saturating_sub(now, time_diff.val)
    IN  IF checks /\ target.overflow THEN Panicked(<<"attempt to add with overflow">>)
        ELSE IF checks /\ time_diff.underflow
        THEN Panicked(<<"attempt to subtract with overflow">>)
        ELSE IF checks /\ time_diff.overflow
        THEN Panicked(<<"attempt to multiply with overflow">>)
        ELSE Ok([number |-> format_hex(target.val), timestamp |-> format_hex(close_time)])

-----------------------------------------------------------------------------
(* tooling/msg-sender-shim/src/transform.rs: the msg.sender transformer.    *)
(* A Solidity source is held as the sequence of its top-level items, in     *)
(* source order: a line of code outside every body ("code"), a comment line *)
(* ("comment"), a modifier, a function, a constructor, or a receive block   *)
(* (a body that starts with neither keyword).  A body is a sequence of      *)
(* statements without nested braces, one per line.  Every statement and     *)
(* code line names in `subject` the identifier standing where the caller    *)
(* is meant: "msg.sender", the injected parameter, or "" for none.  The     *)
(* regular expressions of the code are read over the statement forms they  *)
(* match:                                                                   *)
(*   require_eq      require(msg.sender == name, "...");                    *)
(*   require_eq_rev  require(name == msg.sender, "...");                    *)
(*   require_index   require(name[msg.sender] >= amount, "...");            *)
(*   require_call    require(name(msg.sender), "...");                      *)
(*   index           name[msg.sender] -= amount;                            *)
(*   general         name = msg.sender;                                     *)
(*   comment         // ... msg.sender ...                                  *)
(*   plain           name();                                                *)
(*   auth            name.requireAuth();                                    *)

\* TransformConfig::default().caller_param_name
CallerParamName == "_caller"

Stmt(form, name, subject) == [form |-> form, name |-> name, subject |-> subject]

Item(item_kind, name, params, modifiers, body, subject) ==
    [kind |-> item_kind, name |-> name, params |-> params, modifiers |-> modifiers,
     body |-> body, subject |-> subject]

\* str::contains("msg.sender") on a body
body_contains_msg_sender(body) ==
    \E i \in 1..Len(body) : body[i].subject = "msg.sender"

\* str::contains("msg.sender") on a source
source_contains_msg_sender(source) ==
    \E i \in 1..Len(source) :
        \/ source[i].subject = "msg.sender"
        \/ body_contains_msg_sender(source[i].body)

\* the names of the statements of the given form that mention msg.sender
names_of(body, forms) ==
    LET hits == SelectSeq(body, LAMBDA st : st.form \in forms /\ st.subject = "msg.sender")
    IN  [i \in 1..Len(hits) |-> hits[i].name]

\* the first match of re1, else the first match of re2
extract_comparand_from_require(body) ==
    LET direct == names_of(body, {"require_eq"})
        reversed == names_of(body, {"require_eq_rev"})
    IN  IF direct # <<>> THEN Some(direct[1])
        ELSE IF reversed # <<>> THEN Some(reversed[1])
        ELSE None

\* modifier_re matches a modifier with an empty parameter list
modifier_matches(item) ==
    item.kind = "modifier" /\ item.params = <<>> /\ body_contains_msg_sender(item.body)

modifier_comparand(item) ==
    LET found == extract_comparand_from_require(item.body)
    IN  IF found.some THEN found.v ELSE CallerParamName

\* the matching modifiers become a comment; auth_map lists them last first
transform_modifiers(source) ==
    LET matched == SelectSeq(source, modifier_matches)
        n == Len(matched)
    IN  [output |-> [i \in 1..Len(source) |->
                        IF modifier_matches(source[i])
                        THEN Item("comment", source[i].name, <<>>, <<>>, <<>>, "")
                        ELSE source[i]],
         count |-> n,
         auth_map |-> [i \in 1..n |-> <<matched[n + 1 - i].name,
                                       modifier_comparand(matched[n + 1 - i])>>]]

\* the first occurrence of every name not in seen, in order
RECURSIVE unseen(_, _)
unseen(names, seen) ==
    IF names = <<>> THEN <<>>
    ELSE IF Head(names) \in seen THEN unseen(Tail(names), seen)
    ELSE <<Head(names)>> \o unseen(Tail(names), seen \cup {Head(names)})

Pattern(pattern, name) == [pattern |-> pattern, name |-> name]

\* ownership checks (direct, then reversed), mapping accesses, then general
\* usage: a mention left once every require(...) and every name[msg.sender]
\* is taken out
detect_patterns(body) ==
    LET direct == unseen(names_of(body, {"require_eq"}), {})
        reversed == unseen(names_of(body, {"require_eq_rev"}),
                           {direct[i] : i \in 1..Len(direct)})
        mappings == unseen(names_of(body, {"require_index", "index"}), {})
        general == names_of(body, {"general", "comment"}) # <<>>
    IN  [i \in 1..Len(direct) |-> Pattern("OwnershipCheck", direct[i])]
        \o [i \in 1..Len(reversed) |-> Pattern("OwnershipCheck", reversed[i])]
        \o [i \in 1..Len(mappings) |-> Pattern("MappingAccess", mappings[i])]
        \o (IF general THEN <<Pattern("GeneralUsage", "")>> ELSE <<>>)

\* the requireAuth() lines to inject, pattern by pattern
RECURSIVE auth_calls_of(_, _, _)
auth_calls_of(patterns, auth_calls, has_ownership_auth) ==
    IF patterns = <<>> THEN auth_calls
    ELSE IF Head(patterns).pattern = "OwnershipCheck"
    THEN auth_calls_of(Tail(patterns),
                       Append(auth_calls, Stmt("auth", Head(patterns).name, "")), TRUE)
    ELSE IF ~has_ownership_auth
            /\ ~\E i \in 1..Len(auth_calls) : auth_calls[i].name = CallerParamName
    THEN auth_calls_of(Tail(patterns),
                       Append(auth_calls, Stmt("auth", CallerParamName, "")),
                       has_ownership_auth)
    ELSE auth_calls_of(Tail(patterns), auth_calls, has_ownership_auth)

needs_caller_param(patterns) ==
    \E i \in 1..Len(patterns) : patterns[i].pattern \in {"MappingAccess", "GeneralUsage"}

\* the require(msg.sender == X ...); statements are dropped
remove_msg_sender_requires(body) ==
    SelectSeq(body, LAMBDA st : ~(st.form \in {"require_eq", "require_eq_rev"}
                                   /\ st.subject = "msg.sender"))

\* Regex("msg\.sender").replace_all(body, caller_name)
replace_msg_sender(body) ==
    [i \in 1..Len(body) |->
        IF body[i].subject = "msg.sender"
        THEN Stmt(body[i].form, body[i].name, CallerParamName)
        ELSE body[i]]

\* the shim comment line and the rebuilt function
transform_single_function(func, patterns) ==
    <<Item("comment", "caller pattern -> explicit requireAuth", <<>>, <<>>, <<>>, ""),
      Item(func.kind, func.name,
           IF needs_caller_param(patterns) THEN <<CallerParamName>> \o func.params
           ELSE func.params,
           func.modifiers,
           auth_calls_of(patterns, <<>>, FALSE)
               \o replace_msg_sender(remove_msg_sender_requires(func.body)),
           func.subject)>>

\* extract_functions finds the keywords function and constructor
is_function(item) == item.kind \in {"function", "constructor"}

transform_functions(source) ==
    LET rewritten(item) == is_function(item) /\ body_contains_msg_sender(item.body)
        hit == SelectSeq(source, rewritten)
    IN  [output |-> Concat([i \in 1..Len(source) |->
                               IF rewritten(source[i])
                               THEN transform_single_function(
                                        source[i], detect_patterns(source[i].body))
                               ELSE <<source[i]>>]),
         func_count |-> Len(hit),
         patterns |-> [i \in 1..Len(hit) |-> <<hit[i].name, detect_patterns(hit[i].body)>>]]

\* every `function` whose signature names a transformed modifier loses the
\* name and gets the comparand's requireAuth() after its opening brace
RECURSIVE apply_modifier_auth(_, _)
apply_modifier_auth(source, modifier_auth_map) ==
    IF modifier_auth_map = <<>> THEN source
    ELSE LET modifier_name == Head(modifier_auth_map)[1]
             comparand == Head(modifier_auth_map)[2]
             uses(item) == item.kind = "function"
                           /\ \E k \in 1..Len(item.modifiers) : item.modifiers[k] = modifier_name
         IN  apply_modifier_auth(
                 [i \in 1..Len(source) |->
                     IF uses(source[i])
                     THEN Item(source[i].kind, source[i].name, source[i].params,
                               SelectSeq(source[i].modifiers, LAMBDA m : m # modifier_name),
                               <<Stmt("auth", comparand, "")>> \o source[i].body,
                               source[i].subject)
                     ELSE source[i]],
                 Tail(modifier_auth_map))

\* MsgSenderTransformer::transform under the default configuration
transform(source) ==
    IF ~source_contains_msg_sender(source)
    THEN [output |-> source, functions_transformed |-> 0, modifiers_transformed |-> 0,
          patterns_detected |-> <<>>, warnings |-> <<>>]
    ELSE LET mods == transform_modifiers(source)
             funcs == transform_functions(mods.output)
         IN  [output |-> apply_modifier_auth(funcs.output, mods.auth_map),
              functions_transformed |-> funcs.func_count,
              modifiers_transformed |-> mods.count,
              patterns_detected |-> funcs.patterns,
              warnings |-> <<>>]

\* a line that does not start with // and contains msg.sender
has_msg_sender_in_code(output) ==
    \E i \in 1..Len(output) :
        \/ output[i].kind # "comment" /\ output[i].subject = "msg.sender"
        \/ \E k \in 1..Len(output[i].body) :
              output[i].body[k].form # "comment" /\ output[i].body[k].subject = "msg.sender"

-----------------------------------------------------------------------------
(* The translators, one call at a time: a behaviour applies one conversion *)
(* of translator/scval.rs, translator/abi.rs or translator/tx.rs to one    *)
(* input, in one of the two build profiles, and records the input and the  *)
(* result.                                                                 *)

Key32 == Repeat(7, 31) \o <<9>>

\* the values converted, one list per variant
Words == <<<<0, 0, 0, 0>>, <<0, 0, 0, 42>>, <<255, 255, 255, 255>>>>
Doubles == <<Repeat(0, 7) \o <<1>>, <<128>> \o Repeat(0, 7), Repeat(255, 8)>>
Quads == <<Repeat(0, 15) \o <<5>>, Repeat(0, 7) \o <<1>> \o Repeat(0, 8),
           Repeat(255, 16)>>
Octs == <<<<Repeat(0, 8), Repeat(0, 8), Repeat(0, 8), Repeat(0, 7) \o <<100>>>>,
          <<Repeat(255, 8), Repeat(255, 8), Repeat(255, 8), Repeat(255, 8)>>>>
Blobs == <<<<>>, <<14>>, <<1, 2, 3>>, <<0, 0, 0, 0>>, <<1, 2, 3, 4, 5>>>>
Texts == <<<<>>, <<104, 105>>, <<116, 114, 97, 110, 115, 102, 101, 114>>,
           <<99, 97, 102, 195, 169>>>>
VecItems == <<<<>>, <<ScVal("U32", <<0, 0, 0, 42>>)>>,
              <<ScVal("Bool", TRUE), ScVal("Bytes", <<1, 2, 3>>)>>>>
MapEntries == <<<<>>, <<<<ScVal("Symbol", <<104, 105>>), ScVal("U32", <<0, 0, 0, 42>>)>>>>>>

Tagged(tag, values) == [i \in 1..Len(values) |-> ScVal(tag, values[i])]

ScVals ==
    <<ScVal("Bool", TRUE), ScVal("Bool", FALSE), ScVal("Void", <<>>)>>
    \o Tagged("U32", Words) \o Tagged("I32", Words)
    \o Tagged("U64", Doubles) \o Tagged("I64", Doubles)
    \o Tagged("U128", Quads) \o Tagged("I128", Quads)
    \o Tagged("U256", Octs) \o Tagged("I256", Octs)
    \o Tagged("Bytes", Blobs) \o Tagged("Str", Texts) \o Tagged("Symbol", Texts)
    \o <<ScVal("Address", [kind |-> "Account", key |-> Key32]),
          ScVal("Address", [kind |-> "Contract", key |-> Key32])>>
    \o Tagged("Vec", VecItems) \o Tagged("Map", MapEntries)

CodecUntouched ==
    UNCHANGED <<contracts, lock, reg, rd, config, derived_account, overflow_checks,
                pc, kind, rpc_params, local, outcome, log, lookups, regs_left>>

\* a parameter descriptor with a raw chunk for it
Chunk(param_type, chunk) == [param |-> AbiParam("", param_type), chunk |-> chunk]

StaticChunks ==
    {Chunk(<<"uint256">>, AmountSlot), Chunk(<<"uint256">>, Repeat(255, 32)),
     Chunk(<<"address">>, AddressSlot)}

BytesChunks ==
    {Chunk(<<"bytes">>, b) : b \in {<<>>, <<1, 2, 3>>, Repeat(7, 32), Repeat(7, 33)}}
    \cup {Chunk(<<"string">>, <<104, 105>>)}

\* an array chunk: no element, the elements alone, or the element count
\* followed by the elements (the form decode_dynamic_param returns)
ArrayChunks ==
    {Chunk(<<"uint256", "[]">>, c) :
        c \in {<<>>, AmountSlot, u64_word(1) \o AmountSlot}}

ChunkChoices == StaticChunks \cup BytesChunks \cup ArrayChunks

MaxParams == 2

ChunkLists == UNION {[1..n -> ChunkChoices] : n \in 0..MaxParams}

\* decode_abi_params(&encode_abi_values(&chunks, &types), &types)
AbiRoundTrip ==
    /\ last.op = "none"
    /\ \E list \in ChunkLists :
          LET types == [i \in 1..Len(list) |-> list[i].param]
              chunks == [i \in 1..Len(list) |-> list[i].chunk]
              encoded == encode_abi_values(chunks, types)
          IN  last' = [op |-> "abi_round_trip", types |-> types, chunks |-> chunks,
                       encoded |-> encoded,
                       result |-> IF encoded.ok
                                  THEN decode_abi_params(encoded.val, types)
                                  ELSE encoded]
    /\ CodecUntouched

\* values to encode, with their descriptors: static values shorter than,
\* equal to and longer than a slot, dynamic values of every padding class
EncodeChoices ==
    {Chunk(<<"uint256">>, v) : v \in {<<>>, <<1, 2, 3>>, AmountSlot, Repeat(9, 40)}}
    \cup {Chunk(<<"bytes">>, b) : b \in {<<>>, <<1, 2, 3>>, Repeat(7, 32), Repeat(7, 33)}}
    \cup {Chunk(<<"string">>, <<104, 105>>), Chunk(<<"uint256", "[]">>, AmountSlot)}

MaxEncoded == 3

EncodeLists == UNION {[1..n -> EncodeChoices] : n \in 0..MaxEncoded}

\* encode_abi_values(&values, &param_types), the two lists of one length
AbiEncode ==
    /\ last.op = "none"
    /\ \E list \in EncodeLists :
          LET types == [i \in 1..Len(list) |-> list[i].param]
              values == [i \in 1..Len(list) |-> list[i].chunk]
          IN  last' = [op |-> "encode_abi_values", types |-> types, values |-> values,
                       result |-> encode_abi_values(values, types)]
    /\ CodecUntouched

\* a 32-byte word with the given low 8 bytes
WordOf(low) == Repeat(0, 24) \o low

\* 2^64 - 32, 2^64 - 1, 2^59 and 2^59 + 1 as usize
NearMax == Repeat(255, 7) \o <<224>>
MaxUsize == Repeat(255, 8)
TwoTo59 == <<8>> \o Repeat(0, 7)
TwoTo59Plus1 == <<8>> \o Repeat(0, 6) \o <<1>>

Params(param_type) == <<AbiParam("", param_type)>>

\* buffers given to decode_abi_params with their descriptors: well-formed
\* ones, ones cut short, and ones whose offset or length word is huge
AbiBuffers ==
    {[data |-> d, types |-> Params(<<"uint256">>)] :
        d \in {AmountSlot, Repeat(0, 31), <<>>}}
    \cup {[data |-> d, types |-> Params(<<"bytes">>)] :
        d \in {<<>>, Repeat(0, 31), u64_word(32), u64_word(64) \o u64_word(0),
               u64_word(32) \o u64_word(5) \o <<1, 2, 3, 4>>,
               u64_word(32) \o u64_word(3) \o <<1, 2, 3>> \o Repeat(0, 29),
               WordOf(NearMax) \o u64_word(0), WordOf(MaxUsize) \o u64_word(0),
               u64_word(32) \o WordOf(MaxUsize), u64_word(32) \o WordOf(NearMax)}}
    \cup {[data |-> d, types |-> Params(<<"uint256", "[]">>)] :
        d \in {u64_word(32) \o u64_word(1) \o AmountSlot,
               u64_word(32) \o u64_word(2) \o AmountSlot,
               u64_word(32) \o WordOf(TwoTo59),
               u64_word(32) \o WordOf(TwoTo59Plus1) \o AmountSlot,
               u64_word(32) \o WordOf(MaxUsize) \o AmountSlot,
               WordOf(NearMax) \o u64_word(0)}}
    \cup {[data |-> d, types |-> Params(<<"address">>) \o Params(<<"string">>)] :
        d \in {AddressSlot, AddressSlot \o u64_word(64) \o u64_word(2) \o <<104, 105>>,
               AddressSlot \o u64_word(64) \o u64_word(3) \o <<104, 105>>,
               AddressSlot \o WordOf(NearMax) \o u64_word(2) \o <<104, 105>>}}

\* decode_abi_params(&data, &types), in the build profile at hand
AbiDecode ==
    /\ last.op = "none"
    /\ \E buffer \in AbiBuffers :
          last' = [op |-> "decode_abi_params", data |-> buffer.data,
                   types |-> buffer.types, checks |-> overflow_checks,
                   result |-> decode_abi_params(buffer.data, buffer.types)]
    /\ CodecUntouched

\* An item of a transaction list as a client writes it, with what the rlp
\* crate makes of it: as Vec<u8> (empty on error) and as u64 (0 on error).
\* Num is for at most 8 bytes without a leading zero, Blob for what is not a
\* u64: more than 8 bytes, or a leading zero byte.
Num(b) == [enc |-> rlp_encode_bytes(b), bytes |-> b, u64 |-> Repeat(0, 8 - Len(b)) \o b]
Blob(b) == [enc |-> rlp_encode_bytes(b), bytes |-> b, u64 |-> Repeat(0, 8)]
Nested == [enc |-> <<193, 5>>, bytes |-> <<>>, u64 |-> Repeat(0, 8)]
NonCanonical == [enc |-> <<129, 5>>, bytes |-> <<>>, u64 |-> Repeat(0, 8)]

\* items a u64 field cannot take: 9 bytes, a leading zero, a list, a
\* non-canonical single byte
Malformed == {Blob(Repeat(1, 9)), Blob(<<0, 5>>), Nested, NonCanonical}

\* the v values tried: below, at and above 35, and up to 2^64 - 1
SignatureVs ==
    {Num(b) : b \in {<<>>, <<27>>, <<28>>, <<34>>, <<35>>, <<36>>, <<37>>, <<38>>,
                     <<1, 0>>, <<1, 0, 0, 0, 35>>, <<1, 0, 0, 0, 36>>, Repeat(255, 8)}}

LegacyItems ==
    <<Num(<<5>>), Num(<<1>>), Num(<<82, 8>>), Blob(AddressA), Num(<<>>),
      Blob(TransferCalldata), Num(<<37>>), Num(<<1>>), Num(<<2>>)>>

Eip1559Items ==
    <<Num(<<1>>), Num(<<5>>), Num(<<1>>), Num(<<2>>), Num(<<82, 8>>), Blob(AddressA),
      Num(<<3, 232>>), Blob(TransferCalldata), Nested, Num(<<1>>), Num(<<1>>),
      Num(<<2>>)>>

\* the item lists: the two full forms, each with one item replaced, and
\* their prefixes
ItemLists ==
    {SubSeq(LegacyItems, 1, n) : n \in 0..9}
    \cup {SubSeq(Eip1559Items, 1, n) : n \in 5..12}
    \cup {LegacyItems \o <<Num(<<3>>)>>}
    \cup {[LegacyItems EXCEPT ![i] = m] : i \in 1..9, m \in Malformed}
    \cup {[LegacyItems EXCEPT ![4] = t] : t \in {Blob(Repeat(1, 19)), Blob(Repeat(1, 21))}}
    \cup {[LegacyItems EXCEPT ![5] = Blob(Repeat(1, 17))]}
    \cup {[LegacyItems EXCEPT ![7] = v] : v \in SignatureVs}
    \cup {[Eip1559Items EXCEPT ![i] = m] : i \in {1, 6, 10}, m \in Malformed}

EncodedList(items) == rlp_encode_list([i \in 1..Len(items) |-> items[i].enc])

\* raw transactions: a list with or without a type prefix, and payloads
\* that are not a list
RawTransactions ==
    {[raw_tx |-> prefix \o EncodedList(items), typed |-> prefix # <<>>,
      list |-> TRUE, fields |-> items] :
        prefix \in {<<>>, <<2>>}, items \in ItemLists}
    \cup {[raw_tx |-> raw, typed |-> (raw # <<>> /\ raw[1] < 127), list |-> FALSE,
           fields |-> <<>>] :
        raw \in {<<>>, <<2>>, <<128>>, <<131, 1, 2, 3>>, <<2, 131, 1, 2, 3>>, <<127, 192>>,
                 <<201, 1, 2>>}}

\* decode_raw_transaction(&raw_tx)
TxDecode ==
    /\ last.op = "none"
    /\ \E tx \in RawTransactions :
          last' = [op |-> "decode_raw_transaction", raw_tx |-> tx.raw_tx,
                   typed |-> tx.typed, list |-> tx.list, fields |-> tx.fields,
                   result |-> decode_raw_transaction(tx.raw_tx)]
    /\ CodecUntouched

\* stroop amounts: 0, 1, 10^7 (one XLM), 2^64 - 1, and one non-zero byte
\* at each position
Stroops ==
    {Repeat(0, 8), usize_of(1), usize_of(10000000), MaxUsize, <<1, 2, 3, 4, 5, 6, 7, 8>>}
    \cup {[i \in 1..8 |-> IF i = p THEN b ELSE 0] : p \in 1..8, b \in {1, 128, 255}}

\* wei_to_stroops(stroops_to_wei(x))
StroopsRoundTrip ==
    /\ last.op = "none"
    /\ \E x \in Stroops :
          last' = [op |-> "stroops_round_trip", stroops |-> x,
                   wei |-> stroops_to_wei(x),
                   back |-> wei_to_stroops(stroops_to_wei(x).val)]
    /\ CodecUntouched

\* base64 STANDARD encoding, used only to write down the results a ledger
\* node returns
base64_encode(bytes) ==
    LET n == Len(bytes)
        at(i) == IF i <= n THEN bytes[i] ELSE 0
        sextet(g, k) ==
            IF k = 0 THEN at(3 * g + 1) \div 4
            ELSE IF k = 1 THEN (at(3 * g + 1) % 4) * 16 + (at(3 * g + 2) \div 16)
            ELSE IF k = 2 THEN (at(3 * g + 2) % 16) * 4 + (at(3 * g + 3) \div 64)
            ELSE at(3 * g + 3) % 64
    IN  [j \in 1..(4 * ((n + 2) \div 3)) |->
            LET g == (j - 1) \div 4
                k == (j - 1) % 4
            IN  IF (k = 2 /\ 3 * g + 2 > n) \/ (k = 3 /\ 3 * g + 3 > n) THEN "="
                ELSE Base64Alphabet[sextet(g, k) + 1]]

\* simulation results with the outputs declared for the function called
ResultCases ==
    <<[scval |-> ScVal("Vec", <<ScVal("U32", <<0, 0, 0, 42>>), ScVal("Bool", TRUE)>>),
       outputs |-> Params(<<"uint256">>) \o Params(<<"bool">>)],
      [scval |-> ScVal("Vec", <<ScVal("U32", <<0, 0, 0, 42>>), ScVal("Bool", TRUE),
                                ScVal("U64", Repeat(0, 7) \o <<9>>)>>),
       outputs |-> Params(<<"uint256">>) \o Params(<<"bool">>)],
      [scval |-> ScVal("Vec", <<ScVal("Bytes", <<1, 2, 3>>), ScVal("I32", <<255, 255, 255, 254>>)>>),
       outputs |-> Params(<<"bytes">>) \o Params(<<"int32">>)],
      [scval |-> ScVal("Vec", <<>>),
       outputs |-> Params(<<"uint256">>) \o Params(<<"bool">>)],
      [scval |-> ScVal("Vec", <<ScVal("U32", <<0, 0, 0, 42>>)>>),
       outputs |-> Params(<<"uint256">>)],
      [scval |-> ScVal("Vec", <<ScVal("U32", <<0, 0, 0, 42>>)>>), outputs |-> <<>>],
      [scval |-> ScVal("U32", <<0, 0, 0, 42>>),
       outputs |-> Params(<<"uint256">>) \o Params(<<"bool">>)],
      [scval |-> ScVal("U32", <<0, 0, 0, 42>>), outputs |-> Params(<<"uint256">>)],
      [scval |-> ScVal("Bool", TRUE), outputs |-> <<>>],
      [scval |-> ScVal("Bytes", <<1, 2, 3>>), outputs |-> Params(<<"bytes">>)]>>

\* decode_scval_xdr_to_abi(&base64(scval.to_xdr()), &outputs)
ResultDecode ==
    /\ last.op = "none"
    /\ \E i \in 1..Len(ResultCases) :
          last' = [op |-> "decode_scval_xdr_to_abi", scval |-> ResultCases[i].scval,
                   outputs |-> ResultCases[i].outputs,
                   xdr_base64 |-> base64_encode(to_xdr(ResultCases[i].scval)),
                   result |-> decode_scval_xdr_to_abi(
                                  base64_encode(to_xdr(ResultCases[i].scval)),
                                  ResultCases[i].outputs)]
    /\ CodecUntouched

\* the bodies transformed
Require(form, name) == Stmt(form, name, "msg.sender")
Plain == Stmt("plain", "doSomething", "")
Bodies ==
    {<<Plain>>,
     <<Require("require_eq", "owner"), Plain>>,
     <<Require("require_eq_rev", "owner"), Plain>>,
     <<Require("require_eq", "owner"), Require("require_eq_rev", "admin")>>,
     <<Require("index", "balances")>>,
     <<Require("require_index", "balances"), Require("index", "balances"), Plain>>,
     <<Require("index", "balances"), Require("index", "allowances")>>,
     <<Require("general", "lastCaller")>>,
     <<Require("comment", ""), Plain>>,
     <<Require("require_call", "isAdmin"), Plain>>,
     <<Require("require_eq", "owner"), Require("index", "balances")>>,
     <<Require("require_eq", "owner"), Require("general", "lastCaller")>>,
     <<Require("index", "balances"), Require("general", "lastCaller")>>}

\* what stands before the function: nothing, a state variable with or
\* without msg.sender in its initialiser, a comment, a modifier
Preambles ==
    {<<>>,
     <<Item("code", "owner", <<>>, <<>>, <<>>, "msg.sender")>>,
     <<Item("code", "value", <<>>, <<>>, <<>>, "")>>,
     <<Item("comment", "uses msg.sender", <<>>, <<>>, <<>>, "msg.sender")>>,
     <<Item("modifier", "onlyOwner", <<>>, <<>>,
            <<Require("require_eq", "owner"), Stmt("plain", "_", "")>>, "")>>,
     <<Item("modifier", "onlyOwner", <<>>, <<>>,
            <<Require("general", "lastCaller"), Stmt("plain", "_", "")>>, "")>>,
     <<Item("modifier", "onlyOwner", <<>>, <<>>, <<Plain, Stmt("plain", "_", "")>>, "")>>,
     <<Item("modifier", "onlyOwner", <<"role">>, <<>>,
            <<Require("require_call", "hasRole"), Stmt("plain", "_", "")>>, "")>>}

Declarations ==
    {Item("function", "f", params, modifiers, body, "") :
        params \in {<<>>, <<"to", "amount">>},
        modifiers \in {<<>>, <<"onlyOwner">>},
        body \in Bodies}
    \cup {Item(k, k, <<>>, <<>>, body, "") :
             k \in {"constructor", "receive"},
             body \in {<<Plain>>, <<Require("general", "owner")>>,
                        <<Require("index", "balances")>>}}

Sources ==
    {preamble \o <<declaration>> : preamble \in Preambles, declaration \in Declarations}
    \cup Preambles

\* MsgSenderTransformer::new(TransformConfig::default()).transform(source)
Transform ==
    /\ last.op = "none"
    /\ \E source \in Sources :
          last' = [op |-> "transform", source |-> source, result |-> transform(source)]
    /\ CodecUntouched

\* bytes that follow a complete value in a buffer
Suffixes == {<<0>>, <<0, 0, 0, 1>>, <<255, 1, 2, 3, 4>>}

\* parse_scval_from_xdr on two buffers that hold the same value, the second
\* followed by further bytes
XdrAppend ==
    /\ last.op = "none"
    /\ \E i \in 1..Len(ScVals) : \E suffix \in Suffixes :
          last' = [op |-> "parse_appended", arg |-> ScVals[i], xdr |-> to_xdr(ScVals[i]),
                   suffix |-> suffix,
                   alone |-> parse_scval_from_xdr(to_xdr(ScVals[i])),
                   result |-> parse_scval_from_xdr(to_xdr(ScVals[i]) \o suffix)]
    /\ CodecUntouched

\* block parameters: the five names, hex numbers below, at and above the
\* latest ledger, numbers of 64 bits and more, and texts that are no number
BlockParams ==
    {<<"l", "a", "t", "e", "s", "t">>,
     <<"s", "a", "f", "e">>,
     <<"f", "i", "n", "a", "l", "i", "z", "e", "d">>,
     <<"e", "a", "r", "l", "i", "e", "s", "t">>,
     <<"p", "e", "n", "d", "i", "n", "g">>,
     <<"0", "x", "a">>,
     <<"0", "x", "3", "e", "8">>,
     <<"0", "x", "3", "e", "9">>,
     <<"0", "x", "3", "E", "7">>,
     <<"0", "x", "0">>,
     <<"0", "x", "f", "f", "f", "f", "f", "f", "f", "f", "f", "f", "f", "f", "f", "f", "f", "f">>,
     <<"0", "x", "1", "0", "0", "0", "0", "0", "0", "0", "0", "0", "0", "0", "0", "0", "0", "0", "0">>,
     <<"0", "x", "0", "0", "0", "0", "0", "0", "0", "0", "0", "0", "0", "0", "0", "0", "0", "0", "0", "a">>,
     <<"x", "y", "z">>,
     <<"0", "x">>,
     <<"a">>,
     <<"0", "X", "1", "0">>,
     <<"+", "f", "f">>,
     <<"L", "a", "t", "e", "s", "t">>}

\* latest ledgers: 0, 1000, 2^32 - 1, 2^62 and 2^64 - 1
Ledgers ==
    {usize_of(0), usize_of(1000), Repeat(0, 4) \o Repeat(255, 4),
     <<64>> \o Repeat(0, 7), Repeat(255, 8)}

\* chrono::Utc::now().timestamp() as u64: 1_700_000_000
NowSeconds == <<0, 0, 0, 0, 101, 83, 241, 0>>

\* get_block_by_number(client, [block_param]) with the latest ledger given
BlockByNumber ==
    /\ last.op = "none"
    /\ \E block_param \in BlockParams, latest \in Ledgers :
          last' = [op |-> "get_block_by_number", block_param |-> block_param,
                   latest |-> latest,
                   target |-> parse_block_number(block_param, latest),
                   time_diff |-> time_diff_of(latest,
                                              parse_block_number(block_param, latest).val),
                   result |-> get_block_by_number(block_param, latest, NowSeconds,
                                                  overflow_checks)]
    /\ CodecUntouched

\* the names of the integer types, by width in bytes
UintNames ==
    <<      "uint8", "uint16", "uint24", "uint32", "uint40", "uint48", "uint56",
      "uint64", "uint72", "uint80", "uint88", "uint96", "uint104", "uint112",
      "uint120", "uint128", "uint136", "uint144", "uint152", "uint160",
      "uint168", "uint176", "uint184", "uint192", "uint200", "uint208",
      "uint216", "uint224", "uint232", "uint240", "uint248", "uint256">>
IntNames ==
    <<      "int8", "int16", "int24", "int32", "int40", "int48", "int56", "int64",
      "int72", "int80", "int88", "int96", "int104", "int112", "int120",
      "int128", "int136", "int144", "int152", "int160", "int168", "int176",
      "int184", "int192", "int200", "int208", "int216", "int224", "int232",
      "int240", "int248", "int256">>

\* the static types converted: type tag, class and width in bytes
StaticTypes ==
    <<[t |-> <<"bool">>, class |-> "bool", width |-> 1],
      [t |-> <<"address">>, class |-> "uint", width |-> 20]>>
    \o [k \in 1..32 |-> [t |-> <<UintNames[k]>>, class |-> "uint", width |-> k]]
    \o [k \in 1..32 |-> [t |-> <<IntNames[k]>>, class |-> "int", width |-> k]]
    \o [k \in 1..32 |-> [t |-> <<"bytes", ToString(k)>>, class |-> "bytes", width |-> k]]

\* the significant bytes tried for a value w bytes wide
Payloads(w) ==
    {Repeat(0, w), Repeat(255, w), [i \in 1..w |-> i],
     <<128>> \o Repeat(0, w - 1), <<127>> \o Repeat(255, w - 1),
     Repeat(0, w - 1) \o <<1>>, Repeat(255, w - 1) \o <<254>>}

\* the canonical ABI slot of a value: right-aligned and zero- or
\* sign-extended for numbers, left-aligned and zero-padded for bytesN
canonical_slot(class, payload) ==
    LET pad == 32 - Len(payload)
    IN  CASE class = "bool" -> Repeat(0, 31) \o <<payload[1] % 2>>
          [] class = "uint" -> Repeat(0, pad) \o payload
          [] class = "int" ->
               Repeat(IF payload[1] >= 128 THEN 255 ELSE 0, pad) \o payload
          [] OTHER -> payload \o Repeat(0, pad)

\* scval_to_abi_bytes(&abi_param_to_scval(&slot, &param)?, &param)
SlotRoundTrip ==
    /\ last.op = "none"
    /\ \E i \in 1..Len(StaticTypes) : \E payload \in Payloads(StaticTypes[i].width) :
          LET param == AbiParam("", StaticTypes[i].t)
              slot == canonical_slot(StaticTypes[i].class, payload)
              scval == abi_param_to_scval(slot, param)
          IN  last' = [op |-> "slot_round_trip", param |-> param,
                       class |-> StaticTypes[i].class, slot |-> slot, scval |-> scval,
                       result |-> IF scval.ok THEN scval_to_abi_bytes(scval.val, param)
                                  ELSE scval]
    /\ CodecUntouched

\* the types a value is encoded against
EncodeTypes == {<<"bytes">>, <<"string">>, <<"uint256">>, <<"bool">>, <<"bytes", "4">>}

\* scval_to_abi_bytes(&scval, &param)
ScValToAbi ==
    /\ last.op = "none"
    /\ \E i \in 1..Len(ScVals) : \E t \in EncodeTypes :
          last' = [op |-> "scval_to_abi_bytes", scval |-> ScVals[i],
                   param |-> AbiParam("", t),
                   result |-> scval_to_abi_bytes(ScVals[i], AbiParam("", t))]
    /\ CodecUntouched

\* parse_scval_from_xdr(&scval.to_xdr())
XdrRoundTrip ==
    /\ last.op = "none"
    /\ \E i \in 1..Len(ScVals) :
          last' = [op |-> "xdr_round_trip", arg |-> ScVals[i], xdr |-> to_xdr(ScVals[i]),
                   result |-> parse_scval_from_xdr(to_xdr(ScVals[i]))]
    /\ CodecUntouched

NextCodec ==
    \/ XdrRoundTrip
    \/ AbiRoundTrip
    \/ AbiDecode
    \/ TxDecode
    \/ StroopsRoundTrip
    \/ ResultDecode
    \/ SlotRoundTrip
    \/ BlockByNumber
    \/ XdrAppend
    \/ AbiEncode
    \/ Transform
    \/ ScValToAbi

\* both build profiles, a fixed configuration
InitCodec ==
    /\ Init
    /\ Len(config.stellar_secret_key) = 56
    /\ derived_account = PlaceholderAccount

SpecCodec == InitCodec /\ [][NextCodec]_vars

-----------------------------------------------------------------------------
(* stellar/client.rs: wait_for_transaction, step by step.  The loop is at   *)
(* its head ("loop"), awaits the reply to a getTransaction request          *)
(* ("await"), sleeps before the next attempt ("sleep") or has returned      *)
(* ("done").  polls lists the replies received, requests counts the         *)
(* requests issued.                                                         *)

\* client.get_transaction, from the reply to the request
get_transaction(reply) ==
    LET response == send_request(reply)
    IN  IF ~response.ok THEN response
        ELSE IF reply.kind = "no_result"
        THEN Err(<<"No result in getTransaction response">>)
        ELSE IF reply.kind = "bad_result"
        THEN Err(<<"Failed to parse getTransaction response">>)
        ELSE Ok(reply.result)

GetTransactionResponse(status, result_xdr) == [status |-> status, result_xdr |-> result_xdr]

\* what a getTransaction request can be answered with; PENDING stands for
\* every status other than SUCCESS, FAILED and NOT_FOUND
TransactionReplies ==
    {Reply("transport_error"), Reply("no_result")}
    \cup {Result(GetTransactionResponse(status, None)) :
             status \in {"SUCCESS", "FAILED", "NOT_FOUND", "PENDING"}}

MaxAttempts == 4

\* a faulty variant of the match that sleeps on FAILED too
status_arm_without_failed(status) ==
    IF status = "SUCCESS" THEN "return_ok" ELSE "sleep"

\* match result.status.as_str(): the arm taken
status_arm(status) ==
    CASE status = "SUCCESS" -> "return_ok"
      [] status = "FAILED" -> "return_err"
      [] status = "NOT_FOUND" -> "sleep"
      [] OTHER -> "sleep"

Waiting(max_attempts, attempt, at, polls, requests, result) ==
    [op |-> "wait_for_transaction", tx_hash |-> RemoteHash, max_attempts |-> max_attempts,
     attempt |-> attempt, at |-> at, polls |-> polls, requests |-> requests,
     result |-> result]

InitWait ==
    /\ contracts = EmptyMap
    /\ lock = Unlocked
    /\ reg = [w \in Writers |-> Idle]
    /\ rd = [r \in Readers |-> Idle]
    /\ config = [stellar_secret_key |-> <<"S">> \o Repeat("A", 55)]
    /\ derived_account = PlaceholderAccount
    /\ overflow_checks = FALSE
    /\ pc = [c \in Calls |-> "idle"]
    /\ kind = [c \in Calls |-> "none"]
    /\ rpc_params = [c \in Calls |-> <<>>]
    /\ local = [c \in Calls |-> <<>>]
    /\ outcome = [c \in Calls |-> None]
    /\ log = [c \in Calls |-> <<>>]
    /\ lookups = [c \in Calls |-> <<>>]
    /\ regs_left = 0
    /\ \E max_attempts \in 0..MaxAttempts :
          last = Waiting(max_attempts, 0, "loop", <<>>, 0, None)

WaitUntouched ==
    UNCHANGED <<contracts, lock, reg, rd, config, derived_account, overflow_checks,
                pc, kind, rpc_params, local, outcome, log, lookups, regs_left>>

\* for attempt in 0..max_attempts: the next attempt issues its request
WaitPoll ==
    /\ last.at = "loop" /\ last.attempt < last.max_attempts
    /\ last' = [last EXCEPT !.at = "await", !.requests = @ + 1]
    /\ WaitUntouched

\* the range is exhausted: the error after the loop
WaitExhausted ==
    /\ last.at = "loop" /\ last.attempt >= last.max_attempts
    /\ last' = [last EXCEPT !.at = "done",
                            !.result = Some(Err(<<"Transaction ", last.tx_hash,
                                                  " not confirmed after ",
                                                  last.max_attempts, " attempts">>))]
    /\ WaitUntouched

\* the reply arrives: `?` on a failed request, then the match on the status
WaitReply ==
    /\ last.at = "await"
    /\ \E reply \in TransactionReplies :
          LET result == get_transaction(reply)
              polled == [last EXCEPT !.polls = Append(@, reply)]
          IN  last' =
                IF ~result.ok
                THEN [polled EXCEPT !.at = "done", !.result = Some(result)]
                ELSE IF status_arm(result.val.status) = "return_ok"
                THEN [polled EXCEPT !.at = "done", !.result = Some(Ok(result.val))]
                ELSE IF status_arm(result.val.status) = "return_err"
                THEN [polled EXCEPT !.at = "done",
                                    !.result = Some(Err(<<"Transaction ", last.tx_hash,
                                                          " failed: ",
                                                          result.val.result_xdr>>))]
                ELSE [polled EXCEPT !.at = "sleep"]
    /\ WaitUntouched

\* tokio::time::sleep(2 s) is over: the next iteration
WaitWake ==
    /\ last.at = "sleep"
    /\ last' = [last EXCEPT !.at = "loop", !.attempt = @ + 1]
    /\ WaitUntouched

NextWait == WaitPoll \/ WaitExhausted \/ WaitReply \/ WaitWake

\* the runtime resumes the task when its request is answered (with a
\* response or with an error) and when its timer fires
SpecWait == InitWait /\ [][NextWait]_vars /\ WF_vars(NextWait)

-----------------------------------------------------------------------------
(* Properties of the two handlers *)

\* the positions in a call's log of the requests of one method
Requests(c, method) == {i \in 1..Len(log[c]) : log[c][i].request.method = method}

\* the methods a call has requested, in order
Methods(c) == [i \in 1..Len(log[c]) |-> log[c][i].request.method]

IsPrefix(s, t) == Len(s) <= Len(t) /\ s = SubSeq(t, 1, Len(s))

\* sub occurs in text as a contiguous run
Contains(text, sub) ==
    \E i \in 0..(Len(text) - Len(sub)) : SubSeq(text, i + 1, i + Len(sub)) = sub

\* request i of call c was answered with a simulation result free of error
PricedWithoutError(c, i) ==
    /\ log[c][i].reply.some
    /\ log[c][i].reply.v.kind = "result"
    /\ ~log[c][i].reply.v.result.error.some

\* request i of call c was answered, and not with a simulation free of error
SimulationRefused(c, i) ==
    /\ log[c][i].reply.some
    /\ \/ log[c][i].reply.v.kind # "result"
       \/ log[c][i].reply.v.result.error.some

\* the raw transaction bytes a state-changing call was given
RawBytes(c) == hex_decode(strip_0x(rpc_params[c][1].v))

\* C1: in a state-changing call every sendTransaction request comes after a
\* simulateTransaction request of the same call for the same contract,
\* function and arguments that was answered without a simulation error; and
\* once a simulation is answered with an error, or fails in transport, the
\* call has ended in an error without any sendTransaction request.
C1_SimulatedBeforeSubmitted ==
    \A c \in Calls : kind[c] = "send" =>
        /\ \A i \in Requests(c, "sendTransaction") :
              \E j \in Requests(c, "simulateTransaction") :
                 /\ j < i
                 /\ log[c][j].request.transaction.invoke_args
                      = log[c][i].request.transaction.invoke_args
                 /\ PricedWithoutError(c, j)
        /\ \A j \in Requests(c, "simulateTransaction") :
              SimulationRefused(c, j) =>
                 /\ Requests(c, "sendTransaction") = {}
                 /\ pc[c] = "done"
                 /\ outcome[c].some /\ ~outcome[c].v.ok

\* a state-changing call has sent its transaction after a clean simulation
C1_Witness ==
    \E c \in Calls :
        /\ kind[c] = "send"
        /\ Requests(c, "sendTransaction") # {}
        /\ \E j \in Requests(c, "simulateTransaction") : PricedWithoutError(c, j)

PricedFee(reply) ==
    IF reply.result.min_resource_fee.some
       /\ parse_u32(reply.result.min_resource_fee.v).some
    THEN parse_u32(reply.result.min_resource_fee.v).v
    ELSE U32(10000)

C4_OutcomeFollowsRemoteStatus ==
    \A c \in Calls : \A i \in Requests(c, "sendTransaction") :
        (log[c][i].reply.some /\ log[c][i].reply.v.kind = "result") =>
            LET remote == log[c][i].reply.v.result
            IN  /\ pc[c] = "done"
                /\ outcome[c].some
                /\ CASE remote.status \in {"PENDING", "SUCCESS"} ->
                          outcome[c].v = Ok(stellar_hash_to_evm_hash(
                              IF remote.hash.some THEN remote.hash.v ELSE <<>>))
                     [] remote.status \in {"ERROR", "FAILED"} ->
                          /\ ~outcome[c].v.ok
                          /\ Contains(outcome[c].v.err,
                                      IF remote.error_result_xdr.some
                                      THEN remote.error_result_xdr.v
                                      ELSE <<"Unknown error">>)
                     [] OTHER ->
                          outcome[c].v = Ok(<<"0", "x">> \o Keccak256Hex(RawBytes(c).val))

\* a submission was answered with a status outside the four named ones and
\* the call returned the local hash
C4_Witness ==
    \E c \in Calls : \E i \in Requests(c, "sendTransaction") :
        /\ log[c][i].reply.some
        /\ log[c][i].reply.v.kind = "result"
        /\ log[c][i].reply.v.result.status = "TRY_AGAIN_LATER"
        /\ outcome[c].some /\ outcome[c].v.ok

\* C5 (as the specification states it): a state-changing call awaits the
\* pricing simulation and then the submission and nothing else, a read call
\* its one simulation and nothing else.
C5_OnlySimulationAndSubmissionAwaited ==
    \A c \in Calls :
        /\ kind[c] = "send" =>
              IsPrefix(Methods(c), <<"simulateTransaction", "sendTransaction">>)
        /\ kind[c] = "call" => IsPrefix(Methods(c), <<"simulateTransaction">>)

\* C5 (amended): a state-changing call awaits, in this order and each at most
\* once, the account-sequence query, the pricing simulation and the
\* submission; a read call the account-sequence query and its simulation.
\* Nothing else is awaited, no request is repeated, and only the last request
\* can be unanswered.
C5_AwaitsInOrderOnce ==
    \A c \in Calls :
        /\ kind[c] = "send" =>
              IsPrefix(Methods(c),
                       <<"GET /accounts", "simulateTransaction", "sendTransaction">>)
        /\ kind[c] = "call" =>
              IsPrefix(Methods(c), <<"GET /accounts", "simulateTransaction">>)
        /\ \A i \in 1..(Len(log[c]) - 1) : log[c][i].reply.some

\* a state-changing call went through its three requests and finished
C5_Witness ==
    \E c \in Calls :
        /\ kind[c] = "send"
        /\ pc[c] = "done"
        /\ Len(log[c]) = 3
        /\ log[c][3].reply.some

\* C6: a state-changing call given a raw transaction that decodes with no
\* recipient has returned, as a success, the Keccak-256 hash of the raw
\* bytes, having made no registry lookup and no account-sequence,
\* simulation or submission request.
C6_DeploymentReturnsHashAtOnce ==
    \A c \in Calls :
        (/\ kind[c] = "send"
         /\ rpc_params[c] # <<>> /\ rpc_params[c][1].some
         /\ RawBytes(c).ok
         /\ LET decoded_tx == decode_raw_transaction(RawBytes(c).val)
            IN  decoded_tx.ok /\ ~decoded_tx.val.to.some)
        => /\ pc[c] = "done"
           /\ outcome[c] = Some(Ok(<<"0", "x">> \o Keccak256Hex(RawBytes(c).val)))
           /\ log[c] = <<>>
           /\ lookups[c] = <<>>

\* a state-changing call was given a transaction without recipient while the
\* registry was not empty
C6_Witness ==
    \E c \in Calls :
        /\ kind[c] = "send"
        /\ rpc_params[c] = <<Some(HexText(LegacyTx(<<>>, TransferCalldata)))>>
        /\ outcome[c].some
        /\ DOMAIN contracts # {}

\* the calldata bytes a read call was given
CallBytes(c) == hex_decode(strip_0x(call_data(rpc_params[c][1])))

\* C7: a read call given a target address and calldata of fewer than 4 bytes
\* has returned "0x" having made no registry lookup and no external request,
\* whatever the address and the registry.
C7_ShortCalldataReturnsEmpty ==
    \A c \in Calls :
        (/\ kind[c] = "call"
         /\ rpc_params[c] # <<>> /\ rpc_params[c][1].to.some
         /\ CallBytes(c).ok
         /\ Len(CallBytes(c).val) < 4)
        => /\ pc[c] = "done"
           /\ outcome[c] = Some(Ok(<<"0", "x">>))
           /\ log[c] = <<>>
           /\ lookups[c] = <<>>

\* a read call with three bytes of calldata returned while its target was
\* registered
C7_Witness ==
    \E c \in Calls :
        /\ kind[c] = "call"
        /\ rpc_params[c] # <<>> /\ rpc_params[c][1].to.some
        /\ CallBytes(c).ok /\ Len(CallBytes(c).val) = 3
        /\ outcome[c].some
        /\ has_contract(lock, contracts, rpc_params[c][1].to.v)

\* what C8 expects of a read call for a parsed simulation response, given the
\* function the registry resolves as the response is handled
ExpectedOfSimulation(sim, func_info, got) ==
    IF sim.error.some
    THEN ~got.ok /\ Contains(got.err, sim.error.v)
    ELSE IF ~first_result_xdr(sim).some
    THEN got = Ok(<<"0", "x">>)
    ELSE IF func_info.some
    THEN got = hex_result(decode_scval_xdr_to_abi(first_result_xdr(sim).v,
                                                  func_info.v.outputs))
    ELSE got = Ok(<<"0", "x">>
                  \o hex_encode(IF base64_decode(first_result_xdr(sim).v).ok
                                THEN base64_decode(first_result_xdr(sim).v).val
                                ELSE <<>>))

\* C8: when a read call handles a parsed simulation response, a response with
\* an execution error gives an error outcome containing the upstream message
\* and never a result; a response without error gives the first result
\* decoded with the output types of the function the registry resolves for
\* the call's target and selector, or the raw result bytes when it resolves
\* none ("0x" when the response has no first result).
C8_ReadOutcomeFollowsSimulation ==
    [][\A c \in Calls :
          (/\ kind[c] = "call"
           /\ pc[c] = "await_simulate"
           /\ log'[c][Len(log'[c])].reply.some
           /\ log'[c][Len(log'[c])].reply.v.kind = "result")
          => /\ pc'[c] = "done"
             /\ outcome'[c].some
             /\ ExpectedOfSimulation(
                    log'[c][Len(log'[c])].reply.v.result,
                    lookup_function(lock, contracts, rpc_params[c][1].to.v,
                                    Slice(CallBytes(c).val, 0, 4)),
                    outcome'[c].v)]_vars

\* a read call decoded a 256-bit result with the output types of a function
\* registered for its target
C8_Witness ==
    \E c \in Calls :
        /\ kind[c] = "call"
        /\ pc[c] = "done"
        /\ Len(log[c]) = 2
        /\ PricedWithoutError(c, 2)
        /\ first_result_xdr(log[c][2].reply.v.result) = Some(XdrU256)
        /\ Len(lookups[c]) = 2
        /\ outcome[c].v.ok
        /\ Len(outcome[c].v.val) = 2 + 2 * SlotSize

\* a call is waiting for the answer to the last request it made
Awaiting(c) ==
    /\ pc[c] \in {"await_sequence", "await_simulate", "await_send"}
    /\ log[c] # <<>>
    /\ ~log[c][Len(log[c])].reply.some

-----------------------------------------------------------------------------
(* Properties of the registry *)

\* the lists register_contract can build from the ABIs it is given
CompleteLists == {collect_functions(<<>>, abi) : abi \in Abis}

\* the map in which an address has the given list, or no list
MapOf(addr, view) == IF view.some THEN [a \in {addr} |-> view.v] ELSE EmptyMap

\* the answer of a read operation carried out in one piece on that map
Answer(op, selector, name, addr, view) ==
    CASE op = "lookup_function" ->
           lookup_function(Unlocked, MapOf(addr, view), addr, selector)
      [] op = "lookup_function_by_name" ->
           lookup_function_by_name(Unlocked, MapOf(addr, view), addr, name)
      [] op = "has_contract" -> has_contract(Unlocked, MapOf(addr, view), addr)
      [] op = "get_selectors" -> get_selectors(Unlocked, MapOf(addr, view), addr)

\* C10: whatever the interleaving of register_contract with the four read
\* operations on the same address, the map only ever holds lists that
\* register_contract built completely; the list a reader walks stays the one
\* the address had when the reader took the lock (the list from before the
\* registration or the list it installs); and the reader's answer is the
\* operation's answer on that one list, never on a part or a mixture.
C10_ReadersSeeOldOrNewList ==
    /\ \A a \in DOMAIN contracts : contracts[a] \in CompleteLists
    /\ \A r \in Readers :
          /\ rd[r].pc \in {"get", "scan", "drop"} =>
                /\ rd[r].view.some => rd[r].view.v \in CompleteLists
                /\ rd[r].view = IF rd[r].addr \in DOMAIN contracts
                                THEN Some(contracts[rd[r].addr]) ELSE None
          /\ rd[r].pc \in {"drop", "done"} =>
                rd[r].result = Answer(rd[r].op, rd[r].selector, rd[r].name,
                                      rd[r].addr, rd[r].view)

\* a reader has finished a lookup on the list in the map while a writer,
\* having built a different list for the same address, waits for the lock
C10_Witness ==
    \E r \in Readers, w \in Writers :
        /\ rd[r].pc = "drop"
        /\ rd[r].op = "lookup_function"
        /\ rd[r].result.some
        /\ reg[w].pc = "loop"
        /\ reg[w].abi = <<>>
        /\ reg[w].addr = rd[r].addr
        /\ reg[w].functions # rd[r].view.v

-----------------------------------------------------------------------------
(* Properties of the registry, call by call *)

\* the positions of the list registered for addr whose selector is the given one
Hits(map, addr, selector) ==
    {i \in 1..Len(map[addr]) : map[addr][i].selector = selector}

Last(S) == CHOOSE i \in S : \A j \in S : j <= i

\* the FunctionInfo entries register_contract builds from an ABI list
NamedFunctions(abi) == collect_functions(<<>>, abi)

\* C11: a lookup of (address, selector) resolves at most one FunctionInfo, and
\* when the list registered for the address holds several entries with that
\* selector, the lookup returns the one registered last.
C11_LastRegisteredEntryIsReturned ==
    (last.op = "lookup_function" /\ ~lock.poisoned
       /\ normalize_address(last.address) \in DOMAIN contracts) =>
        LET addr == normalize_address(last.address)
            hits == Hits(contracts, addr, last.selector)
        IN  IF hits = {} THEN last.result = None
            ELSE last.result = Some(contracts[addr][Last(hits)])

\* C12: register_contract(a, abi) makes the selectors of abi's named function
\* entries, and no other selector, resolvable for a, each to an entry of abi;
\* it leaves the list of every other normalized address as it was; and a read
\* operation leaves the whole registry as it was.
C12_RegisterReplacesOneAddressOnly ==
    /\ (last.op = "register_contract" /\ last.result.ok) =>
          LET a == normalize_address(last.address)
              fs == NamedFunctions(last.abi)
          IN  /\ \A s \in AbiSelectors :
                    LET r == lookup_function(lock, contracts, last.address, s)
                    IN  IF \E i \in 1..Len(fs) : fs[i].selector = s
                        THEN /\ r.some
                             /\ \E i \in 1..Len(fs) : fs[i].selector = s /\ fs[i] = r.v
                        ELSE r = None
              /\ \A n \in AbiNames :
                    LET r == lookup_function_by_name(lock, contracts, last.address, n)
                    IN  IF \E i \in 1..Len(fs) : fs[i].name = n
                        THEN /\ r.some
                             /\ \E i \in 1..Len(fs) : fs[i].name = n /\ fs[i] = r.v
                        ELSE r = None
              /\ (DOMAIN contracts) \ {a} = (DOMAIN last.before) \ {a}
              /\ \A b \in (DOMAIN contracts) \ {a} : contracts[b] = last.before[b]
    /\ (last.op \in AbiReadOps) => contracts = last.before

\* an address registered before is registered again with another ABI, and a
\* selector of the earlier list is not in the new one
C12_Witness ==
    /\ last.op = "register_contract"
    /\ last.result.ok
    /\ normalize_address(last.address) \in DOMAIN last.before
    /\ \E s \in AbiSelectors :
          /\ Hits(last.before, normalize_address(last.address), s) # {}
          /\ Hits(contracts, normalize_address(last.address), s) = {}

\* C13: once the lock is poisoned, register_contract returns a lock error and
\* leaves the map as it was, and every read operation answers what it would
\* answer from the map's contents were the lock not poisoned.
C13_PoisonedLockStillAnswersReads ==
    lock.poisoned =>
        /\ (last.op = "register_contract") =>
              (~last.result.ok /\ contracts = last.before)
        /\ (last.op \in AbiReadOps) =>
              last.result = read_registry(last.op, Unlocked, contracts,
                                          last.address, last.selector, last.name)

\* the selector of the calldata decoded last is not registered for its address
SelectorNotRegistered ==
    /\ last.op = "decode_calldata"
    /\ Len(last.calldata) >= 4
    /\ \/ normalize_address(last.address) \notin DOMAIN contracts
       \/ Hits(contracts, normalize_address(last.address),
               Slice(last.calldata, 0, 4)) = {}

-----------------------------------------------------------------------------
(* Properties of the translators *)

\* C14: for an ScVal of any variant, parsing its XDR encoding succeeds and
\* yields a value of the same variant that equals it.
C14_XdrRoundTripYieldsTheValue ==
    (last.op = "xdr_round_trip") =>
        /\ last.result.ok
        /\ last.result.val.tag = last.arg.tag
        /\ last.result.val.v = last.arg.v

\* C15: for a list of static, bytes, string and dynamic-array parameters and a
\* matching list of raw chunks, decoding the encoding of the chunks succeeds
\* and returns exactly the chunks.
C15_AbiRoundTripReturnsTheChunks ==
    (last.op = "abi_round_trip") => last.result = Ok(last.chunks)

\* the span a dynamic parameter's words announce, in exact arithmetic: the
\* offset word o, the length word at o, and o + 32 + length (or length * 32
\* for an array) reach past the end of the buffer
DynamicPastEnd(data, param_type, o) ==
    \/ ~usize_is_small(o)
    \/ usize_value(o) + 32 > Len(data)
    \/ LET length == Slice(data, usize_value(o) + 24, usize_value(o) + 32)
           unit == IF param_type[Len(param_type)] = "[]" THEN 32 ELSE 1
       IN  \/ ~usize_is_small(length)
           \/ usize_value(o) + 32 + usize_value(length) * unit > Len(data)

\* a head slot, or the span of a bytes, string or array parameter, reaches
\* past the end of the buffer
ExtendsPastEnd(data, types) ==
    \E i \in 1..Len(types) :
        \/ 32 * i > Len(data)
        \/ /\ types[i].param_type # <<"tuple">>
           /\ is_dynamic_type(types[i].param_type)
           /\ DynamicPastEnd(data, types[i].param_type,
                             Slice(data, 32 * (i - 1) + 24, 32 * i))

\* C17: decode_abi_params returns an error, and does not panic or succeed,
\* whenever a head slot, a dynamic offset plus its length word, or the span
\* the length implies reaches past the end of the buffer, offsets and lengths
\* near 2^64 included.
C17_ShortBufferIsAnError ==
    (last.op = "decode_abi_params" /\ ExtendsPastEnd(last.data, last.types)) =>
        (~last.result.ok /\ ~is_panic(last.result))

\* the shape of the transaction decoded last: its item count is one the
\* decoder accepts
Shape ==
    IF last.typed /\ Len(last.fields) >= 9 THEN "eip1559"
    ELSE IF Len(last.fields) = 9 THEN "legacy"
    ELSE IF Len(last.fields) = 6 THEN "unsigned"
    ELSE "none"

\* what the client wrote at an index, or the default when there is no such
\* item or the item is not of the field's type
FieldBytes(index) ==
    IF index < Len(last.fields) THEN last.fields[index + 1].bytes ELSE <<>>

FieldU64(index) ==
    IF index < Len(last.fields) THEN last.fields[index + 1].u64 ELSE Repeat(0, 8)

FieldRecipient(index) ==
    IF Len(FieldBytes(index)) = 20 THEN Some(FieldBytes(index)) ELSE None

\* the position of each field in the list, by shape
Positions ==
    IF Shape = "eip1559"
    THEN [nonce |-> 1, gas_price |-> 3, gas_limit |-> 4, to |-> 5, value |-> 6,
          data |-> 7, v |-> 9, r |-> 10, s |-> 11]
    ELSE [nonce |-> 0, gas_price |-> 1, gas_limit |-> 2, to |-> 3, value |-> 4,
          data |-> 5, v |-> 6, r |-> 7, s |-> 8]

C19_ChainIdFromV ==
    (last.op = "decode_raw_transaction" /\ last.result.ok) =>
        LET tx == last.result.val
            v == FieldU64(6)
        IN  /\ Shape = "legacy" =>
                  IF usize_is_small(v) /\ usize_value(v) < 35
                  THEN tx.chain_id = None
                  ELSE /\ tx.chain_id.some
                       /\ LET twice == usize_mul(tx.chain_id.v, 2)
                              back == usize_add(twice.val, usize_of(35))
                          IN  /\ ~twice.overflow
                              /\ ~back.overflow
                              /\ \/ v = back.val
                                 \/ /\ back.val # MaxUsize
                                    /\ v = usize_add(back.val, usize_of(1)).val
            /\ Shape = "unsigned" =>
                  /\ tx.chain_id = None
                  /\ tx.v = Repeat(0, 8)
                  /\ tx.r = <<>>
                  /\ tx.s = <<>>

\* v = 37 gives chain id 1
C19_Witness ==
    /\ last.op = "decode_raw_transaction"
    /\ Shape = "legacy"
    /\ last.result.ok
    /\ last.result.val.v = usize_of(37)
    /\ last.result.val.chain_id = Some(usize_of(1))

\* the decimal digits of a number given as big-endian bytes, without leading
\* zeros (none at all for 0)
RECURSIVE Remainder(_, _, _, _)
Remainder(a, d, i, r) ==
    IF i > Len(a) THEN r ELSE Remainder(a, d, i + 1, (r * 256 + a[i]) % d)

RECURSIVE Decimal(_)
Decimal(a) ==
    IF a = Repeat(0, Len(a)) THEN <<>>
    ELSE Append(Decimal(be_div(a, 10)), Remainder(a, 10, 1, 0))

\* C20: for a 64-bit stroop amount x, stroops_to_wei(x) is x * 10^11 (in
\* decimal: the digits of x followed by eleven zeros) with no overflow of
\* 128 bits, and wei_to_stroops gives x back.
C20_StroopsScaleByTenToEleven ==
    (last.op = "stroops_round_trip") =>
        /\ ~last.wei.overflow
        /\ Decimal(last.wei.val) =
              IF last.stroops = Repeat(0, 8) THEN <<>>
              ELSE Decimal(last.stroops) \o Repeat(0, 11)
        /\ last.back = last.stroops

\* stroops_to_wei(10_000_000) = 10^18
C20_Witness ==
    /\ last.op = "stroops_round_trip"
    /\ last.stroops = usize_of(10000000)
    /\ last.wei.val = Repeat(0, 8) \o <<13, 224, 182, 179, 167, 100, 0, 0>>
    /\ Decimal(last.wei.val) = <<1>> \o Repeat(0, 18)
    /\ last.back = usize_of(10000000)

\* C21: for n >= 2 declared outputs and a result that encodes a Vec, the
\* decoder returns the concatenation of the elements, each encoded against
\* the output type at its position, or against uint256 beyond the declared
\* outputs.
C21_VecResultIsEncodedElementwise ==
    (last.op = "decode_scval_xdr_to_abi" /\ Len(last.outputs) >= 2
       /\ last.scval.tag = "Vec") =>
        last.result =
            Ok(Concat([i \in 1..Len(last.scval.v) |->
                          scval_to_abi_bytes(
                              last.scval.v[i],
                              IF i <= Len(last.outputs) THEN last.outputs[i]
                              ELSE AbiParam("", <<"uint256">>)).val]))

\* C22: converting the canonical slot of a value of a static type (bool,
\* address, uint8 to uint256, int8 to int256, bytes1 to bytes32) to a ScVal
\* and back against the same type returns the slot, negative numbers
\* included; and every ScVal other than a Str, and other than Bytes against
\* type bytes, is encoded in exactly 32 bytes.
C22_StaticSlotRoundTripsAndIsOneSlot ==
    /\ last.op = "slot_round_trip" => last.result = Ok(last.slot)
    /\ (last.op = "scval_to_abi_bytes" /\ last.scval.tag # "Str"
          /\ ~(last.scval.tag = "Bytes" /\ last.param.param_type = <<"bytes">>)) =>
            (last.result.ok /\ Len(last.result.val) = 32)

\* int8 -2 went through an I32 and came back sign-extended with 0xFF
C22_Witness ==
    /\ last.op = "slot_round_trip"
    /\ last.param.param_type = <<"int8">>
    /\ last.slot = Repeat(255, 31) \o <<254>>
    /\ last.scval = Ok(ScVal("I32", <<255, 255, 255, 254>>))
    /\ last.result = Ok(last.slot)

\* the length of a value rounded up to whole slots
PaddedLen(value) == 32 * ((Len(value) + 31) \div 32)

\* where the entry of parameter i starts: after the heads and after the
\* entries of the dynamic parameters before it
RECURSIVE EntryStart(_, _, _)
EntryStart(types, values, i) ==
    IF i = 1 THEN 32 * Len(types)
    ELSE EntryStart(types, values, i - 1)
         + (IF is_dynamic_type(types[i - 1].param_type)
            THEN 32 + PaddedLen(values[i - 1]) ELSE 0)

\* C25: for a descriptor list and a value list of one length the encoding is
\* one 32-byte head slot per parameter, then the dynamic region; the head
\* slot of a dynamic parameter is the byte offset of its 32-byte length
\* prefix, the entries follow in parameter order, each zero-padded to a
\* whole number of slots, and the total length is a multiple of 32.
C25_HeadsThenPaddedDynamicEntries ==
    last.op = "encode_abi_values" =>
        LET types == last.types
            values == last.values
            n == Len(types)
            out == last.result.val
            at(i) == EntryStart(types, values, i)
        IN  /\ last.result.ok
            /\ Len(out) = EntryStart(types, values, n + 1)
            /\ Len(out) % 32 = 0
            /\ \A i \in 1..n :
                  LET head == Slice(out, 32 * (i - 1), 32 * i)
                      v == values[i]
                  IN  IF is_dynamic_type(types[i].param_type)
                      THEN /\ BigEndian(head) = at(i)
                           /\ BigEndian(Slice(out, at(i), at(i) + 32)) = Len(v)
                           /\ Slice(out, at(i) + 32, at(i) + 32 + Len(v)) = v
                           /\ Slice(out, at(i) + 32 + Len(v), at(i + 1))
                                  = Repeat(0, PaddedLen(v) - Len(v))
                      ELSE head = IF Len(v) >= 32 THEN Slice(v, 0, 32)
                                  ELSE Repeat(0, 32 - Len(v)) \o v

\* two dynamic values around a static one, the first needing 31 bytes of
\* padding: heads 96 bytes, entries at 96 and 192, 256 bytes in all
C25_Witness ==
    /\ last.op = "encode_abi_values"
    /\ Len(last.types) = 3
    /\ last.values = <<Repeat(7, 33), <<1, 2, 3>>, <<1, 2, 3>>>>
    /\ last.types[1].param_type = <<"bytes">>
    /\ last.types[2].param_type = <<"uint256">>
    /\ last.types[3].param_type = <<"bytes">>
    /\ last.result.ok
    /\ Len(last.result.val) = 256
    /\ Slice(last.result.val, 0, 32) = Repeat(0, 31) \o <<96>>
    /\ Slice(last.result.val, 64, 96) = Repeat(0, 31) \o <<192>>

\* C26: the decoder reads only the discriminant and the payload it calls
\* for: two buffers that hold the same complete value decode alike, so
\* bytes appended after a complete value do not change the result.
C26_AppendedBytesDoNotChangeTheValue ==
    last.op = "parse_appended" => last.result = last.alone

-----------------------------------------------------------------------------
(* Properties of the handlers under concurrent registration *)

-----------------------------------------------------------------------------
(* Properties of wait_for_transaction *)

\* the reply reports a status other than SUCCESS and FAILED
OtherStatus(reply) ==
    reply.kind = "result" /\ reply.result.status \notin {"SUCCESS", "FAILED"}

NotConfirmed ==
    Err(<<"Transaction ", last.tx_hash, " not confirmed after ",
          last.max_attempts, " attempts">>)

\* at most max_attempts requests; every poll before the last reported some
\* other status; the call returns exactly at the first poll that reports
\* SUCCESS (its response), FAILED or a failed request (an error), or after
\* max_attempts polls of other statuses (the not-confirmed error)
WaitOutcome ==
    LET polls == last.polls
        n == Len(polls)
    IN  /\ last.requests <= last.max_attempts
        /\ last.requests = IF last.at = "await" THEN n + 1 ELSE n
        /\ \A k \in 1..(n - 1) : OtherStatus(polls[k])
        /\ last.at # "done" => (~last.result.some /\ \A k \in 1..n : OtherStatus(polls[k]))
        /\ last.at = "done" =>
              IF n > 0 /\ ~OtherStatus(polls[n])
              THEN IF polls[n].kind = "result" /\ polls[n].result.status = "SUCCESS"
                   THEN last.result = Some(Ok(polls[n].result))
                   ELSE /\ last.result.some
                        /\ ~last.result.v.ok
                        /\ last.result.v # NotConfirmed
              ELSE /\ n = last.max_attempts
                   /\ last.result = Some(NotConfirmed)

-----------------------------------------------------------------------------
(* Properties of eth_getBlockByNumber *)

\* C30: for every block parameter, pending and numbers above the latest
\* ledger included, the block returned carries the parsed target as its
\* number, and neither latest + 1, latest - target nor the product by 5
\* leaves the range of a u64.
C30_BlockNumberIsTargetWithoutOverflow ==
    last.op = "get_block_by_number" =>
        /\ last.result.ok
        /\ u64_from_str_radix_16(strip_0x(last.result.val.number)) = Some(last.target.val)
        /\ ~last.target.overflow
        /\ ~last.time_diff.underflow
        /\ ~last.time_diff.overflow

-----------------------------------------------------------------------------
(* Properties of the msg.sender transformer *)

\* C23: the output of transform, under the default configuration, has
\* msg.sender on no line that is not a comment.
C23_OutputHasNoMsgSenderInCode ==
    last.op = "transform" => ~has_msg_sender_in_code(last.result.output)

\* the injected caller parameter is authenticated at the start of the body:
\* among the requireAuth() lines that open it
CallerAuthenticated(body) ==
    \E k \in 1..Len(body) :
        /\ body[k] = Stmt("auth", CallerParamName, "")
        /\ \A j \in 1..k : body[j].form = "auth"

\* C24: every function of the output that takes the injected caller
\* parameter opens with requireAuth() on that parameter, whatever the
\* patterns detected in it.
C24_InjectedCallerIsAuthenticated ==
    last.op = "transform" =>
        \A i \in 1..Len(last.result.output) :
            (\E p \in 1..Len(last.result.output[i].params) :
                 last.result.output[i].params[p] = CallerParamName)
                => CallerAuthenticated(last.result.output[i].body)

=============================================================================
